---- MODULE Spec2Model ----
(***************************************************************************)
(* PromptLab: the library import of backend/api/prompts.py and the Ollama  *)
(* client of backend/services/ollama_service.py as state machines.         *)
(*                                                                         *)
(* Text values (names, prompts, model names) are sequences of tokens; a    *)
(* token stands for one character, except the tokens listed in Width,      *)
(* which stand for a run of characters.  Temperatures are in tenths.       *)
(***************************************************************************)
EXTENDS Integers, Sequences, FiniteSets, TLC

(***************************************************************************)
(* Bounds of the model                                                     *)
(***************************************************************************)
\* longest import batch
MaxBatch == 2
\* number of import calls in one behaviour
MaxCalls == 1
\* largest max_retries a client is constructed with
MaxRetries == 3
\* largest cache_duration a client is constructed with, in seconds
MaxCacheDuration == 2
\* last second of the clock
MaxTime == 3

(***************************************************************************)
(* Text helpers: str.lower, str.strip, len                                 *)
(***************************************************************************)
Lower(tok) ==
    CASE tok = "A" -> "a"
      [] tok = "B" -> "b"
      [] OTHER -> tok

Width(tok) ==
    CASE tok = "x250" -> 250
      [] tok = "llama2" -> 6
      [] OTHER -> 1

lower(s) == [k \in 1..Len(s) |-> Lower(s[k])]

RECURSIVE lstrip(_)
lstrip(s) == IF s # <<>> /\ Head(s) = " " THEN lstrip(Tail(s)) ELSE s

RECURSIVE rstrip(_)
rstrip(s) ==
    IF s # <<>> /\ s[Len(s)] = " " THEN rstrip(SubSeq(s, 1, Len(s) - 1)) ELSE s

strip(s) == rstrip(lstrip(s))

RECURSIVE len(_)
len(s) == IF s = <<>> THEN 0 ELSE Width(Head(s)) + len(Tail(s))

\* str(counter) as tokens, one per decimal digit
RECURSIVE str(_)
str(n) == IF n < 10 THEN <<ToString(n)>> ELSE str(n \div 10) \o <<ToString(n % 10)>>

(***************************************************************************)
(* Values of an incoming JSON record.  A text field is                     *)
(*   [k |-> "absent" | "none" | "str" | "other", v |-> tokens]             *)
(* ("other" is a truthy non-string such as 123); temperature is            *)
(*   [k |-> "absent" | "none" | "num" | "other", v |-> tenths].            *)
(***************************************************************************)
S(v) == [k |-> "str", v |-> v]
AbsentS == [k |-> "absent", v |-> <<>>]
NoneS == [k |-> "none", v |-> <<>>]
OtherS == [k |-> "other", v |-> <<>>]
N(v) == [k |-> "num", v |-> v]
AbsentN == [k |-> "absent", v |-> 0]
NoneN == [k |-> "none", v |-> 0]

\* "field in prompt_data"
Has(f) == f.k # "absent"
\* Python truthiness of prompt_data[field]
Truthy(f) == (f.k = "str" /\ f.v # <<>>) \/ (f.k = "num" /\ f.v # 0) \/ f.k = "other"
\* dict.get(field, default)
Get(f, default) == IF Has(f) THEN f ELSE default

Opt(cond, msg) == IF cond THEN <<msg>> ELSE <<>>

NameMaxLen == 255
SystemPromptMaxLen == 50000
ModelMaxLen == 100
DescriptionMaxLen == 1000
TemperatureMax == 20
DefaultTemperature == 7
DefaultModel == <<"llama2">>

validate_imported_prompt_data(pd) ==
    Opt(~Has(pd.name) \/ ~Truthy(pd.name), "Name is required")
    \o Opt(~Has(pd.system_prompt) \/ ~Truthy(pd.system_prompt), "System Prompt is required")
    \o (IF ~Has(pd.name) THEN <<>>
        ELSE IF pd.name.k # "str" THEN <<"Name must be a string">>
        ELSE IF len(strip(pd.name.v)) > NameMaxLen THEN <<"Name cannot exceed 255 characters">>
        ELSE IF strip(pd.name.v) = <<>> THEN <<"Name cannot be empty">>
        ELSE <<>>)
    \o (IF ~Has(pd.system_prompt) THEN <<>>
        ELSE IF pd.system_prompt.k # "str" THEN <<"System prompt must be a string">>
        ELSE IF len(strip(pd.system_prompt.v)) > SystemPromptMaxLen
             THEN <<"System prompt cannot exceed 50,000 characters">>
        ELSE IF strip(pd.system_prompt.v) = <<>> THEN <<"System prompt cannot be empty">>
        ELSE <<>>)
    \o (IF ~Has(pd.model) \/ pd.model.k = "none" THEN <<>>
        ELSE IF pd.model.k # "str" THEN <<"Model must be a string">>
        ELSE IF len(strip(pd.model.v)) > ModelMaxLen
             THEN <<"Model name cannot exceed 100 characters">>
        ELSE IF strip(pd.model.v) = <<>> THEN <<"Model name cannot be empty">>
        ELSE <<>>)
    \o (IF ~Has(pd.temperature) \/ pd.temperature.k = "none" THEN <<>>
        ELSE IF pd.temperature.k # "num" THEN <<"Temperature must be a valid number">>
        ELSE IF pd.temperature.v < 0 \/ pd.temperature.v > TemperatureMax
             THEN <<"Temperature must be between 0.0 and 2.0">>
        ELSE <<>>)
    \o (IF ~Has(pd.description) \/ pd.description.k = "none" THEN <<>>
        ELSE IF pd.description.k # "str" THEN <<"Description must be a string">>
        ELSE IF len(strip(pd.description.v)) > DescriptionMaxLen
             THEN <<"Description cannot exceed 1,000 characters">>
        ELSE <<>>)

(***************************************************************************)
(* The Prompt model: the @validates hooks return [ok, val, msg]; val is    *)
(* the value stored in the column when ok.                                 *)
(***************************************************************************)
\* a faulty list that leaves the slash out
invalid_chars_without_slash == {"\\", ":", "*", "?", "\"", "<", ">", "|"}

invalid_chars == {"/", "\\", ":", "*", "?", "\"", "<", ">", "|"}

Ok(val) == [ok |-> TRUE, val |-> val, msg |-> ""]
Raise(msg) == [ok |-> FALSE, val |-> NoneS, msg |-> msg]

validate_name(f) ==
    IF f.k # "str" \/ f.v = <<>> \/ strip(f.v) = <<>>
    THEN Raise("Prompt name cannot be empty")
    ELSE IF len(strip(f.v)) > NameMaxLen
    THEN Raise("Prompt name cannot exceed 255 characters")
    ELSE IF \E k \in 1..Len(strip(f.v)) : strip(f.v)[k] \in invalid_chars
    THEN Raise("Prompt name cannot contain these characters")
    ELSE Ok(S(strip(f.v)))

validate_system_prompt(f) ==
    IF f.k # "str" \/ f.v = <<>> \/ strip(f.v) = <<>>
    THEN Raise("System prompt cannot be empty")
    ELSE IF len(strip(f.v)) > SystemPromptMaxLen
    THEN Raise("System prompt cannot exceed 50,000 characters")
    ELSE Ok(S(strip(f.v)))

validate_model(f) ==
    IF f.k # "str" \/ f.v = <<>> \/ strip(f.v) = <<>>
    THEN Raise("Model name cannot be empty")
    ELSE IF len(strip(f.v)) > ModelMaxLen
    THEN Raise("Model name cannot exceed 100 characters")
    ELSE Ok(S(strip(f.v)))

\* the result's val is [k |-> "num", v |-> tenths]
validate_temperature(f) ==
    IF f.k = "none" THEN [ok |-> FALSE, val |-> NoneN, msg |-> "Temperature cannot be None"]
    ELSE IF f.k # "num"
    THEN [ok |-> FALSE, val |-> NoneN, msg |-> "Temperature must be a valid number"]
    ELSE IF f.v < 0 \/ f.v > TemperatureMax
    THEN [ok |-> FALSE, val |-> NoneN, msg |-> "Temperature must be between 0.0 and 2.0"]
    ELSE [ok |-> TRUE, val |-> f, msg |-> ""]

validate_description(f) ==
    IF f.k = "none" THEN Ok(NoneS)
    ELSE IF len(strip(f.v)) > DescriptionMaxLen
    THEN Raise("Description cannot exceed 1,000 characters")
    ELSE IF strip(f.v) = <<>> THEN Ok(NoneS)
    ELSE Ok(S(strip(f.v)))


(***************************************************************************)
(* Prompt.__init__ assigns name, system_prompt, model, temperature and     *)
(* description in this order; the first hook that raises ends it.          *)
(***************************************************************************)
NoRow ==
    [id |-> 0, name |-> <<>>, system_prompt |-> <<>>, model |-> <<>>,
     temperature |-> 0, description |-> NoneS, updated_at |-> 0]

Prompt(name, system_prompt, model, temperature, description, stamp) ==
    LET vn == validate_name(name)
        vs == validate_system_prompt(system_prompt)
        vm == validate_model(model)
        vt == validate_temperature(temperature)
        vd == validate_description(description)
    IN  IF ~vn.ok THEN [ok |-> FALSE, row |-> NoRow, msg |-> vn.msg]
        ELSE IF ~vs.ok THEN [ok |-> FALSE, row |-> NoRow, msg |-> vs.msg]
        ELSE IF ~vm.ok THEN [ok |-> FALSE, row |-> NoRow, msg |-> vm.msg]
        ELSE IF ~vt.ok THEN [ok |-> FALSE, row |-> NoRow, msg |-> vt.msg]
        ELSE IF ~vd.ok THEN [ok |-> FALSE, row |-> NoRow, msg |-> vd.msg]
        ELSE [ok |-> TRUE,
              row |-> [id |-> 0, name |-> vn.val.v, system_prompt |-> vs.val.v,
                       model |-> vm.val.v, temperature |-> vt.val.v,
                       description |-> vd.val, updated_at |-> stamp],
              msg |-> ""]

(***************************************************************************)
(* Prompt.update_from_dict with the dictionary import_library passes       *)
(* (description, system_prompt, model, temperature; no name): the fields   *)
(* are set in the order of updatable_fields, and a hook that raises leaves *)
(* the fields set before it changed.  updated_at is assigned at the end;   *)
(* when the call raises, the column's onupdate refreshes it at the flush   *)
(* if a column changed.                                                    *)
(***************************************************************************)
\* a faulty update that leaves the temperature as it was
update_from_dict_without_temperature(row, description, system_prompt, model, temperature, stamp) ==
    LET vd == validate_description(description)
        vs == validate_system_prompt(system_prompt)
        vm == validate_model(model)
        r1 == [row EXCEPT !.description = vd.val]
        r2 == [r1 EXCEPT !.system_prompt = vs.val.v]
        r3 == [r2 EXCEPT !.model = vm.val.v]
    IN  IF ~vd.ok THEN [ok |-> FALSE, row |-> row, msg |-> vd.msg]
        ELSE IF ~vs.ok THEN [ok |-> FALSE, row |-> r1, msg |-> vs.msg]
        ELSE IF ~vm.ok THEN [ok |-> FALSE, row |-> r2, msg |-> vm.msg]
        ELSE [ok |-> TRUE, row |-> [r3 EXCEPT !.updated_at = stamp], msg |-> ""]

update_from_dict(row, description, system_prompt, model, temperature, stamp) ==
    LET vd == validate_description(description)
        vs == validate_system_prompt(system_prompt)
        vm == validate_model(model)
        vt == validate_temperature(temperature)
        r1 == [row EXCEPT !.description = vd.val]
        r2 == [r1 EXCEPT !.system_prompt = vs.val.v]
        r3 == [r2 EXCEPT !.model = vm.val.v]
        r4 == [r3 EXCEPT !.temperature = vt.val.v]
        Touch(r) == IF r = row THEN r ELSE [r EXCEPT !.updated_at = stamp]
    IN  IF ~vd.ok THEN [ok |-> FALSE, row |-> row, msg |-> vd.msg]
        ELSE IF ~vs.ok THEN [ok |-> FALSE, row |-> Touch(r1), msg |-> vs.msg]
        ELSE IF ~vm.ok THEN [ok |-> FALSE, row |-> Touch(r2), msg |-> vm.msg]
        ELSE IF ~vt.ok THEN [ok |-> FALSE, row |-> Touch(r3), msg |-> vt.msg]
        ELSE [ok |-> TRUE, row |-> [r4 EXCEPT !.updated_at = stamp], msg |-> ""]

(***************************************************************************)
(* generate_unique_name: the while loop over counter = 1, 2, ...           *)
(***************************************************************************)
candidate_name(base_name, counter) == base_name \o <<" ", "(">> \o str(counter) \o <<")">>

RECURSIVE generate_unique_name_from(_, _, _)
generate_unique_name_from(base_name, existing, counter) ==
    IF lower(candidate_name(base_name, counter)) \notin DOMAIN existing
    THEN candidate_name(base_name, counter)
    ELSE generate_unique_name_from(base_name, existing, counter + 1)

\* a faulty generator whose counter starts at 2
generate_unique_name_from_two(original_name, existing) ==
    generate_unique_name_from(original_name, existing, 2)

\* a faulty generator that never looks at the snapshot
generate_unique_name_unchecked(original_name, existing) == candidate_name(original_name, 1)

generate_unique_name(original_name, existing) == generate_unique_name_from(original_name, existing, 1)

(***************************************************************************)
(* Storage: a table is a sequence of rows in id order.                     *)
(***************************************************************************)
RECURSIVE MaxId(_)
MaxId(rows) ==
    IF rows = <<>> THEN 0
    ELSE LET m == MaxId(Tail(rows)) IN IF Head(rows).id > m THEN Head(rows).id ELSE m

\* {prompt.name.lower(): prompt for prompt in session.query(Prompt).all()} :
\* a later row replaces an earlier one under the same key; the value is the
\* row's id, which stands for the reference to the object
RECURSIVE BuildExisting(_)
BuildExisting(rows) ==
    IF rows = <<>> THEN << >>
    ELSE LET last == rows[Len(rows)]
         IN  (lower(last.name) :> last.id) @@ BuildExisting(SubSeq(rows, 1, Len(rows) - 1))

RowIndex(rows, id) == CHOOSE k \in 1..Len(rows) : rows[k].id = id

\* a table without the UNIQUE constraint
UniqueViolationNever(rows, name) == FALSE

\* the UNIQUE constraint on prompts.name (case-sensitive)
UniqueViolation(rows, name) == \E k \in 1..Len(rows) : rows[k].name = name

EmptyResults ==
    [imported |-> <<>>, skipped |-> <<>>, overwritten |-> <<>>, renamed |-> <<>>,
     errors |-> <<>>]


(***************************************************************************)
(* State                                                                   *)
(***************************************************************************)
VARIABLES
    db,                 \* the committed prompts table
    imp_pc,             \* import_library: "idle", "loop" or "commit"
    batch,              \* import_data['prompts']
    conflict_resolution,
    i,                  \* position of the for loop in batch, from 1
    existing_prompts,   \* lowercase name -> id of the prompt object
    session_rows,       \* the table as the open session sees it
    session_failed,     \* a flush failed: the transaction is rolled back
    results,            \* the five buckets, each entry with the record's position idx
    response,           \* the last answer of import_library
    calls,              \* number of import calls begun; the clock of updated_at
    request,            \* the last request to the prompt library
    exported            \* the rows the last export_library call read

import_vars ==
    <<db, imp_pc, batch, conflict_resolution, i, existing_prompts, session_rows,
      session_failed, results, response, calls, request, exported>>

VARIABLES
    max_retries,        \* OllamaService.max_retries
    cache_duration,     \* OllamaService.cache_duration
    models_cache,       \* OllamaService._models_cache
    models_cache_time,  \* OllamaService._models_cache_time
    now,                \* the clock, in seconds
    active,             \* the callers that use the service
    cache_by,           \* history: the caller whose fetch in progress or last fetch
                        \* wrote _models_cache; 0 for an earlier fetch, a clear or none
    time_by,            \* history: the same for _models_cache_time
    th                  \* per caller: the call in progress and its local variables

client_vars ==
    <<max_retries, cache_duration, models_cache, models_cache_time, now, active,
      cache_by, time_by, th>>

vars == <<import_vars, client_vars>>

(***************************************************************************)
(* Inputs: the records an import batch is made of                          *)
(***************************************************************************)
Rec(name, system_prompt, model, temperature, description) ==
    [dict |-> TRUE, name |-> name, system_prompt |-> system_prompt, model |-> model,
     temperature |-> temperature, description |-> description]

\* {"name": "A", "system_prompt": "p"}
RecA == Rec(S(<<"A">>), S(<<"p">>), AbsentS, AbsentN, AbsentS)
\* {"name": "a", "system_prompt": "q", "model": "m", "temperature": 1.2, "description": "d"}
RecLowerA == Rec(S(<<"a">>), S(<<"q">>), S(<<"m">>), N(12), S(<<"d">>))
\* {"name": "A", "system_prompt": "q", "model": null, "temperature": 0.5}
RecNullModel == Rec(S(<<"A">>), S(<<"q">>), NoneS, N(5), AbsentS)
\* {"name": " A", "system_prompt": "p"}
RecPadded == Rec(S(<<" ", "A">>), S(<<"p">>), AbsentS, AbsentN, AbsentS)
\* {"name": "B"}
RecNoPrompt == Rec(S(<<"B">>), AbsentS, AbsentS, AbsentN, AbsentS)
\* an item of the list that is no JSON object, such as "abc" or 5
RecNotDict == [Rec(AbsentS, AbsentS, AbsentS, AbsentN, AbsentS) EXCEPT !.dict = FALSE]

IncomingRecords == {RecA, RecLowerA, RecNullModel, RecPadded, RecNoPrompt, RecNotDict}

Batches == UNION {[1..n -> IncomingRecords] : n \in 0..MaxBatch}

Policies == {"skip", "overwrite", "rename"}

Row(id, name, system_prompt) ==
    [id |-> id, name |-> name, system_prompt |-> system_prompt, model |-> DefaultModel,
     temperature |-> DefaultTemperature, description |-> NoneS, updated_at |-> 0]

\* collections the create endpoint can have stored before the first import
InitialCollections ==
    { <<>>,
      <<Row(1, <<"A">>, <<"o">>)>>,
      <<Row(1, <<"A">>, <<"o">>), Row(2, <<"A", " ", "(", "1", ")">>, <<"o">>)>>,
      <<Row(1, <<"A">>, <<"o">>), Row(2, <<"a">>, <<"o">>)>> }

NoResponse == [kind |-> "none", code |-> "", results |-> EmptyResults, total_processed |-> 0]

NoData == Rec(AbsentS, AbsentS, AbsentS, AbsentN, AbsentS)
NoRequest == [op |-> "none", id |-> 0, data |-> NoData]
NoExport == [done |-> FALSE, prompts |-> <<>>]

ImportInit ==
    /\ db \in InitialCollections
    /\ imp_pc = "idle"
    /\ batch = <<>>
    /\ conflict_resolution = "skip"
    /\ i = 1
    /\ existing_prompts = << >>
    /\ session_rows = <<>>
    /\ session_failed = FALSE
    /\ results = EmptyResults
    /\ response = NoResponse
    /\ calls = 0
    /\ request = NoRequest
    /\ exported = NoExport

(***************************************************************************)
(* import_library, up to the loop: the request is parsed, the session is   *)
(* opened and existing_prompts is read from the table.                     *)
(***************************************************************************)
ImportStart(b, p) ==
    /\ imp_pc = "idle"
    /\ calls' = calls + 1
    /\ batch' = b
    /\ conflict_resolution' = p
    /\ i' = 1
    /\ existing_prompts' = BuildExisting(db)
    /\ session_rows' = db
    /\ session_failed' = FALSE
    /\ results' = EmptyResults
    /\ response' = NoResponse
    /\ imp_pc' = IF b = <<>> THEN "commit" ELSE "loop"
    /\ UNCHANGED <<db, exported>>
    /\ UNCHANGED client_vars

ImportBegin(b, p) == calls < MaxCalls /\ ImportStart(b, p) /\ UNCHANGED request

AddTo(res, bucket, entry) == [res EXCEPT ![bucket] = Append(@, entry)]

\* a faulty skip branch: the record is passed over without a report entry
SkipRecordUnreported(res, idx, original_name) == res

\* the skip branch: the record is reported and nothing else happens
SkipRecord(res, idx, original_name) ==
    AddTo(res, "skipped",
          [idx |-> idx, name |-> original_name, reason |-> "Name already exists"])

\* a faulty lookup that forgets to lowercase the incoming name
NameInSnapshotExact(original_name, existing) == original_name \in DOMAIN existing

\* "name_lower = original_name.lower()" and "name_lower in existing_prompts"
NameInSnapshot(original_name, existing) == lower(original_name) \in DOMAIN existing

\* a faulty loop that leaves the records it creates out of the snapshot
ExistingAfterCreateForgotten(existing, row) == existing

\* "existing_prompts[prompt.name.lower()] = prompt"
ExistingAfterCreate(existing, row) == (lower(row.name) :> row.id) @@ existing

(***************************************************************************)
(* One iteration of the for loop over a JSON object pd at position idx.    *)
(* The result is the state of the loop after the iteration.                *)
(***************************************************************************)
ProcessRecord(pd, idx, policy, existing, rows, failed, res, committed, stamp) ==
    LET same == [existing |-> existing, rows |-> rows, failed |-> failed, results |-> res]
        validation_errors == validate_imported_prompt_data(pd)
        original_name == pd.name.v
        name_lower == lower(original_name)
        conflict == NameInSnapshot(original_name, existing)
        new_name == IF conflict THEN generate_unique_name(original_name, existing)
                    ELSE original_name
        res_renamed ==
            IF conflict
            THEN AddTo(res, "renamed",
                       [idx |-> idx, original_name |-> original_name, new_name |-> new_name])
            ELSE res
        made == Prompt(S(new_name), pd.system_prompt, Get(pd.model, S(DefaultModel)),
                       Get(pd.temperature, N(DefaultTemperature)),
                       Get(pd.description, NoneS), stamp)
        Errored(r, name, msg) ==
            AddTo(r, "errors", [idx |-> idx, name |-> name, errors |-> <<msg>>])
    IN  IF validation_errors # <<>>
        THEN [same EXCEPT !.results =
                 AddTo(res, "errors",
                       [idx |-> idx, name |-> Get(pd.name, S(<<"Unknown">>)),
                        errors |-> validation_errors])]
        ELSE IF conflict /\ policy = "skip"
        THEN [same EXCEPT !.results = SkipRecord(res, idx, original_name)]
        ELSE IF conflict /\ policy = "overwrite"
        THEN IF failed
             \* the objects of a rolled back session are expired: reading
             \* existing_prompt.id raises
             THEN [same EXCEPT !.results = Errored(res, pd.name, "PendingRollbackError")]
             ELSE LET k == RowIndex(rows, existing[name_lower])
                      upd == update_from_dict(rows[k], Get(pd.description, NoneS),
                                              pd.system_prompt, Get(pd.model, S(DefaultModel)),
                                              Get(pd.temperature, N(DefaultTemperature)), stamp)
                  IN  [same EXCEPT
                         !.rows = [rows EXCEPT ![k] = upd.row],
                         !.results =
                            IF upd.ok
                            THEN AddTo(res, "overwritten",
                                       [idx |-> idx, name |-> original_name, id |-> rows[k].id])
                            ELSE Errored(res, pd.name, upd.msg)]
        ELSE IF ~made.ok
        THEN [same EXCEPT !.results = Errored(res_renamed, S(new_name), made.msg)]
        ELSE IF failed
        \* session.flush() on a rolled back transaction
        THEN [same EXCEPT !.results = Errored(res_renamed, S(new_name), "PendingRollbackError")]
        ELSE IF UniqueViolation(rows, made.row.name)
        \* IntegrityError: the flush rolls the transaction back
        THEN [same EXCEPT
                !.rows = committed,
                !.failed = TRUE,
                !.results = Errored(res_renamed, S(new_name), "UNIQUE constraint failed")]
        ELSE LET row == [made.row EXCEPT !.id = MaxId(rows) + 1]
             IN  [existing |-> ExistingAfterCreate(existing, row),
                  rows |-> Append(rows, row),
                  failed |-> failed,
                  results |-> AddTo(res_renamed, "imported",
                                    [idx |-> idx, name |-> row.name, id |-> row.id])]

ErrorResponse(code) ==
    [kind |-> "error", code |-> code, results |-> EmptyResults, total_processed |-> 0]

(***************************************************************************)
(* The loop body.  An item that is no JSON object raises inside the        *)
(* loop's own except clause (prompt_data.get), which ends the call in the  *)
(* outer handler: rollback and IMPORT_ERROR.                               *)
(***************************************************************************)
ImportRecord ==
    /\ imp_pc = "loop"
    /\ IF ~batch[i].dict
       THEN /\ imp_pc' = "idle"
            /\ response' = ErrorResponse("IMPORT_ERROR")
            /\ session_rows' = db
            /\ UNCHANGED <<i, existing_prompts, session_failed, results>>
       ELSE LET n == ProcessRecord(batch[i], i, conflict_resolution, existing_prompts,
                                   session_rows, session_failed, results, db, calls)
            IN  /\ existing_prompts' = n.existing
                /\ session_rows' = n.rows
                /\ session_failed' = n.failed
                /\ results' = n.results
                /\ i' = i + 1
                /\ imp_pc' = IF i = Len(batch) THEN "commit" ELSE "loop"
                /\ UNCHANGED response
    /\ UNCHANGED <<db, batch, conflict_resolution, calls, request, exported>>
    /\ UNCHANGED client_vars

\* a faulty sum that leaves the errors bucket out
total_processed_without_errors(res) ==
    Len(res.imported) + Len(res.skipped) + Len(res.overwritten) + Len(res.renamed)

total_processed(res) ==
    Len(res.imported) + Len(res.skipped) + Len(res.overwritten) + Len(res.renamed)
    + Len(res.errors)

(***************************************************************************)
(* session.commit() and the response.  After a failed flush the commit     *)
(* raises and the outer handler answers DATABASE_ERROR.                    *)
(***************************************************************************)
ImportCommit ==
    /\ imp_pc = "commit"
    /\ imp_pc' = "idle"
    /\ IF session_failed
       THEN /\ response' = ErrorResponse("DATABASE_ERROR")
            /\ UNCHANGED db
       ELSE /\ db' = session_rows
            /\ response' = [kind |-> "report", code |-> "", results |-> results,
                            total_processed |-> total_processed(results)]
    /\ UNCHANGED <<batch, conflict_resolution, i, existing_prompts, session_rows,
                   session_failed, results, calls, request, exported>>
    /\ UNCHANGED client_vars

(***************************************************************************)
(* The prompt library: create_prompt, update_prompt, delete_prompt and     *)
(* export_library.  Each handler opens a session, commits at most once and *)
(* closes the session; what is not committed is lost.                      *)
(***************************************************************************)
MaxPrompts == 2

Answer(kind, code) ==
    [kind |-> kind, code |-> code, results |-> EmptyResults, total_processed |-> 0]

\* validate_prompt_data: the keys of the errors dictionary; data[field].strip()
\* raises AttributeError for a truthy value that is no string
validate_prompt_data(data, required_fields) ==
    LET Missing(field) == field \in required_fields /\ ~Truthy(data[field])
        TooLong(field, max) ==
            Truthy(data[field]) /\ data[field].k = "str" /\ len(strip(data[field].v)) > max
        Blank(field) ==
            Truthy(data[field]) /\ data[field].k = "str" /\ strip(data[field].v) = <<>>
    IN  [raised |-> \E field \in {"name", "system_prompt", "model", "description"} :
                       data[field].k = "other",
         errors |->
            {field \in {"name", "system_prompt", "model"} : Missing(field)}
            \cup (IF TooLong("name", NameMaxLen) \/ Blank("name") THEN {"name"} ELSE {})
            \cup (IF TooLong("system_prompt", SystemPromptMaxLen) \/ Blank("system_prompt")
                  THEN {"system_prompt"} ELSE {})
            \cup (IF TooLong("model", ModelMaxLen) \/ Blank("model") THEN {"model"} ELSE {})
            \cup (IF data.temperature.k = "other"
                     \/ (data.temperature.k = "num"
                         /\ (data.temperature.v < 0 \/ data.temperature.v > TemperatureMax))
                  THEN {"temperature"} ELSE {})
            \cup (IF TooLong("description", DescriptionMaxLen) THEN {"description"} ELSE {})]

\* the arguments create_prompt passes to Prompt(): .strip() on null raises
\* AttributeError, float(None) raises TypeError
CreateArgumentsRaise(data) ==
    data.model.k = "none" \/ data.temperature.k = "none" \/ data.description.k = "none"

CreateArguments(data, stamp) ==
    LET description == strip(Get(data.description, S(<<>>)).v)
    IN  Prompt(S(strip(data.name.v)), S(strip(data.system_prompt.v)),
               S(strip(Get(data.model, S(DefaultModel)).v)),
               Get(data.temperature, N(DefaultTemperature)),
               IF description = <<>> THEN NoneS ELSE S(description), stamp)

create_prompt(data, rows, stamp) ==
    LET validation_errors == validate_prompt_data(data, {"name", "system_prompt"})
        made == CreateArguments(data, stamp)
        same == [rows |-> rows]
    IN  IF data = NoData THEN same @@ [code |-> "INVALID_JSON"]
        ELSE IF validation_errors.raised THEN same @@ [code |-> "CREATION_ERROR"]
        ELSE IF validation_errors.errors # {} THEN same @@ [code |-> "VALIDATION_ERROR"]
        ELSE IF CreateArgumentsRaise(data) THEN same @@ [code |-> "CREATION_ERROR"]
        ELSE IF ~made.ok THEN same @@ [code |-> "VALIDATION_ERROR"]
        ELSE IF UniqueViolation(rows, made.row.name) THEN same @@ [code |-> "DUPLICATE_NAME"]
        ELSE [rows |-> Append(rows, [made.row EXCEPT !.id = MaxId(rows) + 1]),
              code |-> "CREATED"]

CreatePrompt(data) ==
    /\ imp_pc = "idle"
    /\ calls = 0
    /\ ~exported.done
    /\ Len(db) < MaxPrompts
    /\ LET r == create_prompt(data, db, calls)
       IN  /\ db' = r.rows
           /\ response' = Answer("create", r.code)
    /\ request' = [op |-> "create", id |-> 0, data |-> data]
    /\ UNCHANGED <<imp_pc, batch, conflict_resolution, i, existing_prompts, session_rows,
                   session_failed, results, calls, exported>>
    /\ UNCHANGED client_vars

\* Prompt.update_from_dict with the body of an update request: the fields
\* present are set in the order of updatable_fields, each through its hook
update_from_dict_request(row, data, stamp) ==
    LET vn == validate_name(data.name)
        vd == validate_description(data.description)
        vs == validate_system_prompt(data.system_prompt)
        vm == validate_model(data.model)
        vt == validate_temperature(data.temperature)
        r1 == IF Has(data.name) /\ vn.ok THEN [row EXCEPT !.name = vn.val.v] ELSE row
        r2 == IF Has(data.description) /\ vd.ok THEN [r1 EXCEPT !.description = vd.val]
              ELSE r1
        r3 == IF Has(data.system_prompt) /\ vs.ok THEN [r2 EXCEPT !.system_prompt = vs.val.v]
              ELSE r2
        r4 == IF Has(data.model) /\ vm.ok THEN [r3 EXCEPT !.model = vm.val.v] ELSE r3
        r5 == IF Has(data.temperature) /\ vt.ok THEN [r4 EXCEPT !.temperature = vt.val.v]
              ELSE r4
    IN  IF Has(data.name) /\ ~vn.ok THEN [ok |-> FALSE, row |-> row, msg |-> vn.msg]
        ELSE IF Has(data.description) /\ data.description.k = "other"
        THEN [ok |-> FALSE, row |-> r1, msg |-> "AttributeError"]
        ELSE IF Has(data.description) /\ ~vd.ok THEN [ok |-> FALSE, row |-> r1, msg |-> vd.msg]
        ELSE IF Has(data.system_prompt) /\ ~vs.ok
        THEN [ok |-> FALSE, row |-> r2, msg |-> vs.msg]
        ELSE IF Has(data.model) /\ ~vm.ok THEN [ok |-> FALSE, row |-> r3, msg |-> vm.msg]
        ELSE IF Has(data.temperature) /\ ~vt.ok
        THEN [ok |-> FALSE, row |-> r4, msg |-> vt.msg]
        ELSE [ok |-> TRUE, row |-> [r5 EXCEPT !.updated_at = stamp], msg |-> ""]

HasId(rows, id) == \E k \in 1..Len(rows) : rows[k].id = id

\* the commit of an UPDATE that gives the row the name of another row fails
RenameViolation(rows, id, name) ==
    \E k \in 1..Len(rows) : rows[k].id # id /\ rows[k].name = name

update_prompt(prompt_id, data, rows, stamp) ==
    LET validation_errors == validate_prompt_data(data, {})
        k == RowIndex(rows, prompt_id)
        upd == update_from_dict_request(rows[k], data, stamp)
        same == [rows |-> rows]
    IN  IF data = NoData THEN same @@ [code |-> "INVALID_JSON"]
        ELSE IF validation_errors.raised THEN same @@ [code |-> "UPDATE_ERROR"]
        ELSE IF validation_errors.errors # {} THEN same @@ [code |-> "VALIDATION_ERROR"]
        ELSE IF ~HasId(rows, prompt_id) THEN same @@ [code |-> "NOT_FOUND"]
        ELSE IF ~upd.ok THEN same @@ [code |-> "VALIDATION_ERROR"]
        ELSE IF RenameViolation(rows, prompt_id, upd.row.name)
        THEN same @@ [code |-> "DUPLICATE_NAME"]
        ELSE [rows |-> [rows EXCEPT ![k] = upd.row], code |-> "UPDATED"]

UpdatePrompt(prompt_id, data) ==
    /\ imp_pc = "idle"
    /\ calls = 0
    /\ ~exported.done
    /\ LET r == update_prompt(prompt_id, data, db, calls)
       IN  /\ db' = r.rows
           /\ response' = Answer("update", r.code)
    /\ request' = [op |-> "update", id |-> prompt_id, data |-> data]
    /\ UNCHANGED <<imp_pc, batch, conflict_resolution, i, existing_prompts, session_rows,
                   session_failed, results, calls, exported>>
    /\ UNCHANGED client_vars

(***************************************************************************)
(* export_library: session.query(Prompt).order_by(Prompt.name).all() and   *)
(* to_dict() of each row.  Names compare by code point, as SQLite's BINARY *)
(* collation does.                                                         *)
(***************************************************************************)
Code(tok) ==
    CASE tok = " " -> 32
      [] tok = "(" -> 40
      [] tok = ")" -> 41
      [] tok = "1" -> 49
      [] tok = "2" -> 50
      [] tok = "A" -> 65
      [] tok = "B" -> 66
      [] tok = "a" -> 97
      [] tok = "b" -> 98
      [] tok = "x250" -> 120
      [] OTHER -> 0

RECURSIVE NameBefore(_, _)
NameBefore(a, b) ==
    IF b = <<>> THEN FALSE
    ELSE IF a = <<>> THEN TRUE
    ELSE IF Code(Head(a)) # Code(Head(b)) THEN Code(Head(a)) < Code(Head(b))
    ELSE NameBefore(Tail(a), Tail(b))

RECURSIVE order_by_name(_)
order_by_name(rows) ==
    IF rows = <<>> THEN <<>>
    ELSE LET k == CHOOSE m \in 1..Len(rows) :
                     \A n \in 1..Len(rows) : n = m \/ NameBefore(rows[m].name, rows[n].name)
         IN  <<rows[k]>>
             \o order_by_name(SubSeq(rows, 1, k - 1) \o SubSeq(rows, k + 1, Len(rows)))

\* Prompt.to_dict, as json.dumps writes it and json.loads reads it back: a
\* text column is a JSON string, temperature a JSON number, an empty
\* description null
to_dict(row) ==
    [dict |-> TRUE, id |-> row.id, name |-> S(row.name), description |-> row.description,
     system_prompt |-> S(row.system_prompt), model |-> S(row.model),
     temperature |-> N(row.temperature), updated_at |-> row.updated_at]

\* export_data['prompts']
ExportData(prompts) == [k \in 1..Len(prompts) |-> to_dict(prompts[k])]

ExportLibrary ==
    /\ imp_pc = "idle"
    /\ ~exported.done
    /\ exported' = [done |-> TRUE, prompts |-> order_by_name(db)]
    /\ response' = Answer("export", "")
    /\ request' = [op |-> "export", id |-> 0, data |-> NoData]
    /\ UNCHANGED <<db, imp_pc, batch, conflict_resolution, i, existing_prompts, session_rows,
                   session_failed, results, calls>>
    /\ UNCHANGED client_vars

delete_prompt(prompt_id, rows) ==
    IF ~HasId(rows, prompt_id) THEN [rows |-> rows, code |-> "NOT_FOUND"]
    ELSE LET k == RowIndex(rows, prompt_id)
         IN  [rows |-> SubSeq(rows, 1, k - 1) \o SubSeq(rows, k + 1, Len(rows)),
              code |-> "DELETED"]

\* the client empties the collection after the export
DeletePrompt(prompt_id) ==
    /\ imp_pc = "idle"
    /\ exported.done
    /\ response.kind \in {"export", "delete"}
    /\ LET r == delete_prompt(prompt_id, db)
       IN  /\ db' = r.rows
           /\ response' = Answer("delete", r.code)
    /\ request' = [op |-> "delete", id |-> prompt_id, data |-> NoData]
    /\ UNCHANGED <<imp_pc, batch, conflict_resolution, i, existing_prompts, session_rows,
                   session_failed, results, calls, exported>>
    /\ UNCHANGED client_vars

\* the export is posted to import-library, conflict_resolution "skip", once
\* the collection is empty
ImportExport ==
    /\ exported.done
    /\ response.kind \in {"export", "delete"}
    /\ db = <<>>
    /\ ImportStart(ExportData(exported.prompts), "skip")
    /\ request' = [op |-> "import", id |-> 0, data |-> NoData]

(***************************************************************************)
(* The Ollama client                                                       *)
(***************************************************************************)
Threads == {1, 2}

OllamaConnectionError == "OllamaConnectionError"
OllamaTimeoutError == "OllamaTimeoutError"

Exc(cls, msg, status, text) == [cls |-> cls, msg |-> msg, status |-> status, text |-> text]
NoExc == Exc("None", "", 0, "")

\* what GET api/tags can answer
ModelLlama == [name |-> "llama2", size |-> 1000000]
ModelCode == [name |-> "codellama", size |-> 2000000]
Body(models) == [parsable |-> TRUE, models |-> models]
\* a body response.json() or the loop over it raises on
Garbage == [parsable |-> FALSE, models |-> <<>>]
Bodies == {Body(<<>>), Body(<<ModelLlama>>), Body(<<ModelLlama, ModelCode>>), Garbage}

\* what POST api/generate can answer: the JSON object's 'response' entry is
\* a string, null or missing
GenBody(text) == [parsable |-> TRUE, models |-> <<>>, response |-> text]
GenBodies ==
    {GenBody(S(<<" ", "r", " ">>)), GenBody(S(<<>>)), GenBody(S(<<" ", " ">>)),
     GenBody(AbsentS), GenBody(NoneS)}

Statuses == {404, 503}

\* what one session.request + raise_for_status can do
Outcomes ==
    {[kind |-> "ok", status |-> 200, body |-> b] : b \in Bodies}
    \cup {[kind |-> k, status |-> 0, body |-> Garbage] : k \in {"timeout", "connection", "other"}}
    \cup {[kind |-> "http", status |-> st, body |-> Garbage] : st \in Statuses}

\* the kind of an attempt, as recorded in the history of a call
KindOf(out) ==
    IF out.kind = "http"
    THEN IF out.status >= 500 THEN "server_error" ELSE "client_error"
    ELSE out.kind

BytesPerMB == 1048576

\* round(size / (1024 * 1024), 1) if size else 0, in tenths of a MB
size_mb(size) ==
    IF size = 0 THEN 0
    ELSE LET q == (size * 10) \div BytesPerMB
             r == (size * 10) % BytesPerMB
         IN  IF 2 * r > BytesPerMB \/ (2 * r = BytesPerMB /\ q % 2 = 1) THEN q + 1 ELSE q

\* the list get_available_models builds from data['models']
ConvertModels(raw) ==
    [k \in 1..Len(raw) |->
        [name |-> raw[k].name, size |-> raw[k].size, size_mb |-> size_mb(raw[k].size)]]

NoCache == [k |-> "none", v |-> <<>>]
NoTime == [k |-> "none", v |-> 0]
Cached(models) == [k |-> "list", v |-> models]
At(time) == [k |-> "time", v |-> time]

NoInfo ==
    [cached |-> FALSE, cache_time |-> NoTime, cache_age_seconds |-> NoTime,
     cache_valid |-> FALSE, models_count |-> 0]

\* the dictionary check_connection returns; message is the exception str() is taken of
NoConn == [connected |-> FALSE, status |-> "", message |-> NoExc]
Connected == [connected |-> TRUE, status |-> "healthy", message |-> NoExc]
NotConnected(exc) == [connected |-> FALSE, status |-> "error", message |-> exc]

NoResult ==
    [kind |-> "none", models |-> <<>>, info |-> NoInfo, conn |-> NoConn, exc |-> NoExc,
     text |-> <<>>, healthy |-> FALSE]
\* the refined prompt, or the 'response' entry of the dictionary test_prompt returns
ReturnedText(text) == [NoResult EXCEPT !.kind = "return", !.text = text]
\* the boolean health_check returns
ReturnedHealth(healthy) == [NoResult EXCEPT !.kind = "return", !.healthy = healthy]
ReturnedConn(conn) == [NoResult EXCEPT !.kind = "return", !.conn = conn]
Returned(models) == [NoResult EXCEPT !.kind = "return", !.models = models]
ReturnedInfo(info) == [NoResult EXCEPT !.kind = "return", !.info = info]
Raised(exc) == [NoResult EXCEPT !.kind = "raise", !.exc = exc]

NoMr == [kind |-> "none", body |-> Garbage, exc |-> NoExc]

\* pc, op, use_cache, attempt, last_exception, wake, mr (what _make_request
\* returned or raised), models and result are the call's own variables;
\* call_count (requests issued by the call), outcomes (the kind of each
\* attempt), last_out (the outcome of the latest attempt), waits (the
\* sleeps), entry (cache, clock and writers of the cache when the call
\* began), copy_by (the writer of the snapshot the call copied) and prev_op
\* (the caller's previous operation) record its history
IdleThread ==
    [pc |-> "idle", op |-> "none", use_cache |-> FALSE, attempt |-> 0,
     last_exception |-> NoExc, call_count |-> 0, outcomes |-> <<>>, waits |-> <<>>,
     wake |-> 0, mr |-> NoMr, models |-> <<>>, result |-> NoResult,
     last_out |-> [kind |-> "none", status |-> 0, body |-> Garbage],
     entry |-> [cache |-> NoCache, time |-> NoTime, now |-> 0, cache_by |-> 0, time_by |-> 0],
     copy_by |-> 0, prev_op |-> "none"]

ClientInitWith(retries, duration, callers) ==
    /\ max_retries = retries
    /\ cache_duration = duration
    /\ models_cache = NoCache
    /\ models_cache_time = NoTime
    /\ now = 0
    /\ active = callers
    /\ cache_by = 0
    /\ time_by = 0
    /\ th = [t \in Threads |-> IdleThread]

DefaultMaxRetries == 3
DefaultCacheDuration == 300

\* a faulty validity test that also accepts an age equal to the duration
is_cache_valid_inclusive(cache, cache_time, time, duration) ==
    IF cache.k = "none" \/ cache_time.k = "none" THEN FALSE
    ELSE time <= cache_time.v + duration

\* _is_cache_valid, with datetime.now() = time
is_cache_valid(cache, cache_time, time, duration) ==
    IF cache.k = "none" \/ cache_time.k = "none" THEN FALSE
    ELSE time < cache_time.v + duration

\* the local state of a call that starts: every operation begins from here
StartCall(t, op, use_cache) ==
    [IdleThread EXCEPT
        !.op = op,
        !.use_cache = use_cache,
        !.entry = [cache |-> models_cache, time |-> models_cache_time, now |-> now,
                   cache_by |-> cache_by, time_by |-> time_by],
        !.prev_op = th[t].op]

CanCall(t) == t \in active /\ th[t].pc \in {"idle", "done"}

\* a faulty entry that never looks at the cache
GamEntryPcNoCache(use_cache) == "request"

\* "if use_cache and self._is_cache_valid()"
GamEntryPc(use_cache) ==
    IF use_cache /\ is_cache_valid(models_cache, models_cache_time, now, cache_duration)
    THEN "gam_copy" ELSE "request"

(***************************************************************************)
(* get_available_models(use_cache): the entry and the test of the cache.   *)
(***************************************************************************)
CallGetAvailableModels(t, use_cache) ==
    /\ CanCall(t)
    /\ th' = [th EXCEPT ![t] =
                 [StartCall(t, "get_available_models", use_cache) EXCEPT
                     !.pc = GamEntryPc(use_cache)]]
    /\ UNCHANGED <<max_retries, cache_duration, models_cache, models_cache_time, now, active,
                   cache_by, time_by>>
    /\ UNCHANGED import_vars

\* a faulty refresh that forgets use_cache=False
RefreshUseCacheDefault == TRUE

\* the argument refresh_models_cache passes
RefreshUseCache == FALSE

(***************************************************************************)
(* refresh_models_cache(): get_available_models(use_cache=False)           *)
(***************************************************************************)
CallRefreshModelsCache(t) ==
    /\ CanCall(t)
    /\ th' = [th EXCEPT ![t] =
                 [StartCall(t, "refresh_models_cache", RefreshUseCache) EXCEPT
                     !.pc = GamEntryPc(RefreshUseCache)]]
    /\ UNCHANGED <<max_retries, cache_duration, models_cache, models_cache_time, now, active,
                   cache_by, time_by>>
    /\ UNCHANGED import_vars

\* "return self._models_cache.copy()"; on None the attribute lookup raises
GamCopy(t) ==
    /\ t \in active
    /\ th[t].pc = "gam_copy"
    /\ th' = [th EXCEPT ![t] =
                 [@ EXCEPT !.pc = "done",
                           !.copy_by = cache_by,
                           !.result = IF models_cache.k = "none"
                                      THEN Raised(Exc("AttributeError", "copy", 0, ""))
                                      ELSE Returned(models_cache.v)]]
    /\ UNCHANGED <<max_retries, cache_duration, models_cache, models_cache_time, now, active,
                   cache_by, time_by>>
    /\ UNCHANGED import_vars

\* a faulty classification that retries every HTTP error
IsClientErrorNever(out) == FALSE

\* "e.response.status_code >= 500" is false
IsClientError(out) == out.kind = "http" /\ out.status < 500

\* a faulty classification that reports a timeout as a connection failure
ClassifyTimeoutAsConnection(out) ==
    CASE out.kind = "timeout" -> Exc(OllamaConnectionError, "Failed to connect to Ollama", 0, "")
      [] out.kind = "connection" ->
            Exc(OllamaConnectionError, "Failed to connect to Ollama", 0, "")
      [] out.kind = "http" -> Exc(OllamaConnectionError, "Ollama server error", out.status, "")
      [] OTHER -> Exc(OllamaConnectionError, "Unexpected error communicating with Ollama", 0, "")

\* the exception a failed attempt leaves in last_exception
Classify(out) ==
    CASE out.kind = "timeout" -> Exc(OllamaTimeoutError, "Request timed out", 0, "")
      [] out.kind = "connection" ->
            Exc(OllamaConnectionError, "Failed to connect to Ollama", 0, "")
      [] out.kind = "http" -> Exc(OllamaConnectionError, "Ollama server error", out.status, "")
      [] OTHER -> Exc(OllamaConnectionError, "Unexpected error communicating with Ollama", 0, "")

\* the text of an error response
TextOf(status) == IF status = 404 THEN "Not Found" ELSE "error"

\* a faulty loop that keeps the first failure instead of the last
KeepFirstException(last_exception, out) ==
    IF last_exception = NoExc THEN Classify(out) ELSE last_exception

\* the assignment to last_exception in the except clauses
NextLastException(last_exception, out) == Classify(out)

\* a faulty loop bound: one attempt too few
AttemptsLeftOneLess(attempt) == attempt < max_retries - 1

\* "for attempt in range(self.max_retries)" has another iteration
AttemptsLeft(attempt) == attempt < max_retries

\* a faulty backoff that grows by two seconds per attempt
wait_time_linear(attempt) == 2 * attempt

\* "wait_time = 2 ** attempt"
wait_time(attempt) == 2 ^ attempt

(***************************************************************************)
(* _make_request: one iteration of the retry loop, with the outcome out of *)
(* session.request and raise_for_status.                                   *)
(***************************************************************************)
Attempt(t, out) ==
    /\ t \in active
    /\ th[t].pc = "request"
    /\ AttemptsLeft(th[t].attempt)
    /\ LET c == [th[t] EXCEPT !.call_count = @ + 1, !.outcomes = Append(@, KindOf(out)),
                              !.last_out = out]
       IN  th' = [th EXCEPT ![t] =
             IF out.kind = "ok"
             THEN [c EXCEPT !.pc = "after_request",
                            !.mr = [kind |-> "response", body |-> out.body, exc |-> NoExc]]
             ELSE IF IsClientError(out)
             THEN [c EXCEPT !.pc = "after_request",
                            !.mr = [kind |-> "raise", body |-> Garbage,
                                    exc |-> Exc(OllamaConnectionError, "Ollama API error",
                                                out.status, TextOf(out.status))]]
             ELSE IF c.attempt < max_retries - 1
             THEN [c EXCEPT !.pc = "sleep",
                            !.last_exception = NextLastException(c.last_exception, out),
                            !.waits = Append(@, wait_time(c.attempt)),
                            !.wake = now + wait_time(c.attempt)]
             ELSE [c EXCEPT !.last_exception = NextLastException(c.last_exception, out),
                            !.attempt = @ + 1]]
    /\ UNCHANGED <<max_retries, cache_duration, models_cache, models_cache_time, now, active,
                   cache_by, time_by>>
    /\ UNCHANGED import_vars

\* time.sleep(wait_time) returns and the loop goes on
Sleep(t) ==
    /\ t \in active
    /\ th[t].pc = "sleep"
    /\ now >= th[t].wake
    /\ th' = [th EXCEPT ![t] = [@ EXCEPT !.pc = "request", !.attempt = @ + 1]]
    /\ UNCHANGED <<max_retries, cache_duration, models_cache, models_cache_time, now, active,
                   cache_by, time_by>>
    /\ UNCHANGED import_vars

\* "raise last_exception" after the loop; raising None is a TypeError
RaiseLast(t) ==
    /\ t \in active
    /\ th[t].pc = "request"
    /\ ~AttemptsLeft(th[t].attempt)
    /\ th' = [th EXCEPT ![t] =
                 [@ EXCEPT !.pc = "after_request",
                           !.mr = [kind |-> "raise", body |-> Garbage,
                                   exc |-> IF th[t].last_exception = NoExc
                                           THEN Exc("TypeError", "exceptions must derive from BaseException", 0, "")
                                           ELSE th[t].last_exception]]]
    /\ UNCHANGED <<max_retries, cache_duration, models_cache, models_cache_time, now, active,
                   cache_by, time_by>>
    /\ UNCHANGED import_vars

IsOllamaError(exc) == exc.cls \in {OllamaConnectionError, OllamaTimeoutError}

(***************************************************************************)
(* get_available_models after _make_request: the exception handler, or     *)
(* response.json() and the list of models.                                 *)
(***************************************************************************)
GamAfterRequest(t) ==
    /\ t \in active
    /\ th[t].pc = "after_request"
    /\ th[t].op \in {"get_available_models", "refresh_models_cache"}
    /\ th' = [th EXCEPT ![t] =
         IF th[t].mr.kind = "raise"
         THEN [@ EXCEPT !.pc = "done",
                        !.result = IF IsOllamaError(th[t].mr.exc) THEN Raised(th[t].mr.exc)
                                   ELSE Raised(Exc(OllamaConnectionError,
                                                   "Failed to parse models response", 0, ""))]
         ELSE IF ~th[t].mr.body.parsable
         THEN [@ EXCEPT !.pc = "done",
                        !.result = Raised(Exc(OllamaConnectionError,
                                              "Failed to parse models response", 0, ""))]
         ELSE [@ EXCEPT !.pc = "gam_store_cache",
                        !.models = ConvertModels(th[t].mr.body.models)]]
    /\ UNCHANGED <<max_retries, cache_duration, models_cache, models_cache_time, now, active,
                   cache_by, time_by>>
    /\ UNCHANGED import_vars

\* "self._models_cache = models.copy()"
GamStoreCache(t) ==
    /\ t \in active
    /\ th[t].pc = "gam_store_cache"
    /\ models_cache' = Cached(th[t].models)
    /\ cache_by' = t
    \* a capture time this caller wrote belongs to an earlier fetch of it
    /\ time_by' = IF time_by = t THEN 0 ELSE time_by
    /\ th' = [th EXCEPT ![t] = [@ EXCEPT !.pc = "gam_store_time"]]
    /\ UNCHANGED <<max_retries, cache_duration, models_cache_time, now, active>>
    /\ UNCHANGED import_vars

\* "self._models_cache_time = datetime.now()" and "return models"
GamStoreTime(t) ==
    /\ t \in active
    /\ th[t].pc = "gam_store_time"
    /\ models_cache_time' = At(now)
    /\ time_by' = t
    /\ th' = [th EXCEPT ![t] = [@ EXCEPT !.pc = "done", !.result = Returned(th[t].models)]]
    /\ UNCHANGED <<max_retries, cache_duration, models_cache, now, active, cache_by>>
    /\ UNCHANGED import_vars

\* a faulty clear that keeps a snapshot that is still valid
ClearedCacheKeepValid ==
    IF is_cache_valid(models_cache, models_cache_time, now, cache_duration)
    THEN models_cache ELSE NoCache

\* the value clear_models_cache assigns to _models_cache
ClearedCache == NoCache

(***************************************************************************)
(* clear_models_cache(): two assignments                                   *)
(***************************************************************************)
CallClearModelsCache(t) ==
    /\ CanCall(t)
    /\ models_cache' = ClearedCache
    /\ th' = [th EXCEPT ![t] =
                 [StartCall(t, "clear_models_cache", FALSE) EXCEPT !.pc = "clear_time"]]
    /\ cache_by' = 0
    /\ UNCHANGED <<max_retries, cache_duration, models_cache_time, now, active, time_by>>
    /\ UNCHANGED import_vars

ClearTime(t) ==
    /\ t \in active
    /\ th[t].pc = "clear_time"
    /\ models_cache_time' = NoTime
    /\ time_by' = 0
    /\ th' = [th EXCEPT ![t] = [@ EXCEPT !.pc = "done", !.result = Returned(<<>>)]]
    /\ UNCHANGED <<max_retries, cache_duration, models_cache, now, active, cache_by>>
    /\ UNCHANGED import_vars

\* a faulty report that takes an expired snapshot for no snapshot
cache_info_expired_is_absent(cache, cache_time, time, duration) ==
    IF ~is_cache_valid(cache, cache_time, time, duration) THEN NoInfo
    ELSE [cached |-> TRUE, cache_time |-> cache_time,
          cache_age_seconds |-> At(time - cache_time.v),
          cache_valid |-> TRUE, models_count |-> Len(cache.v)]

\* the dictionary get_cache_info returns
cache_info(cache, cache_time, time, duration) ==
    IF cache.k = "none" \/ cache_time.k = "none" THEN NoInfo
    ELSE [cached |-> TRUE, cache_time |-> cache_time,
          cache_age_seconds |-> At(time - cache_time.v),
          cache_valid |-> is_cache_valid(cache, cache_time, time, duration),
          models_count |-> Len(cache.v)]

(***************************************************************************)
(* get_cache_info()                                                        *)
(***************************************************************************)
CallGetCacheInfo(t) ==
    /\ CanCall(t)
    /\ th' = [th EXCEPT ![t] =
                 [StartCall(t, "get_cache_info", FALSE) EXCEPT
                     !.pc = "done",
                     !.result = ReturnedInfo(cache_info(models_cache, models_cache_time,
                                                        now, cache_duration))]]
    /\ UNCHANGED <<max_retries, cache_duration, models_cache, models_cache_time, now, active,
                   cache_by, time_by>>
    /\ UNCHANGED import_vars

(***************************************************************************)
(* check_connection(): _make_request('GET', 'api/tags'), then the result   *)
(* or the except clause.                                                   *)
(***************************************************************************)
CallCheckConnection(t) ==
    /\ CanCall(t)
    /\ th' = [th EXCEPT ![t] =
                 [StartCall(t, "check_connection", FALSE) EXCEPT !.pc = "request"]]
    /\ UNCHANGED <<max_retries, cache_duration, models_cache, models_cache_time, now, active,
                   cache_by, time_by>>
    /\ UNCHANGED import_vars

\* a faulty except clause that lets a timeout through
CaughtConnectionErrorOnly(exc) == exc.cls = OllamaConnectionError

\* "except (OllamaConnectionError, OllamaTimeoutError) as e"
CaughtByCheckConnection(exc) == IsOllamaError(exc)

\* the response is not read: any answer that is no HTTP error counts as connected
CcAfterRequest(t) ==
    /\ t \in active
    /\ th[t].pc = "after_request"
    /\ th[t].op = "check_connection"
    /\ th' = [th EXCEPT ![t] =
         [@ EXCEPT !.pc = "done",
                   !.result = IF th[t].mr.kind = "response" THEN ReturnedConn(Connected)
                              ELSE IF CaughtByCheckConnection(th[t].mr.exc)
                              THEN ReturnedConn(NotConnected(th[t].mr.exc))
                              ELSE Raised(th[t].mr.exc)]]
    /\ UNCHANGED <<max_retries, cache_duration, models_cache, models_cache_time, now, active,
                   cache_by, time_by>>
    /\ UNCHANGED import_vars

(***************************************************************************)
(* refine_prompt() and test_prompt(): _make_request('POST', 'api/generate')*)
(* and then data.get('response', '').strip().                              *)
(***************************************************************************)
GenerateOps == {"refine_prompt", "test_prompt"}

CallRefinePrompt(t) ==
    /\ CanCall(t)
    /\ th' = [th EXCEPT ![t] = [StartCall(t, "refine_prompt", FALSE) EXCEPT !.pc = "request"]]
    /\ UNCHANGED <<max_retries, cache_duration, models_cache, models_cache_time, now, active,
                   cache_by, time_by>>
    /\ UNCHANGED import_vars

CallTestPrompt(t) ==
    /\ CanCall(t)
    /\ th' = [th EXCEPT ![t] = [StartCall(t, "test_prompt", FALSE) EXCEPT !.pc = "request"]]
    /\ UNCHANGED <<max_retries, cache_duration, models_cache, models_cache_time, now, active,
                   cache_by, time_by>>
    /\ UNCHANGED import_vars

EmptyResponse(op) ==
    Exc(OllamaConnectionError,
        IF op = "refine_prompt"
        THEN "Received empty response from Ollama during prompt refinement"
        ELSE "Received empty response from Ollama during prompt testing", 0, "")

FailedTo(op) ==
    Exc(OllamaConnectionError,
        IF op = "refine_prompt" THEN "Failed to refine prompt" ELSE "Failed to test prompt",
        0, "")

\* a faulty reading that keeps the surrounding blanks
generation_text_unstripped(text) == Get(text, S(<<>>)).v

\* data.get('response', '').strip()
generation_text(text) == strip(Get(text, S(<<>>)).v)

\* the statements after _make_request, inside "try"; a body without a
\* 'response' entry (the answer of api/tags) reads as ''
GenerateResult(op, mr) ==
    IF mr.kind = "raise"
    THEN IF IsOllamaError(mr.exc) THEN Raised(mr.exc) ELSE Raised(FailedTo(op))
    ELSE IF ~mr.body.parsable THEN Raised(FailedTo(op))
    ELSE IF "response" \notin DOMAIN mr.body
    THEN Raised(EmptyResponse(op))
    \* None.strip() raises AttributeError
    ELSE IF mr.body.response.k \notin {"str", "absent"} THEN Raised(FailedTo(op))
    ELSE IF generation_text(mr.body.response) = <<>> THEN Raised(EmptyResponse(op))
    ELSE ReturnedText(generation_text(mr.body.response))

GenAfterRequest(t) ==
    /\ t \in active
    /\ th[t].pc = "after_request"
    /\ th[t].op \in GenerateOps
    /\ th' = [th EXCEPT ![t] =
                 [@ EXCEPT !.pc = "done", !.result = GenerateResult(th[t].op, th[t].mr)]]
    /\ UNCHANGED <<max_retries, cache_duration, models_cache, models_cache_time, now, active,
                   cache_by, time_by>>
    /\ UNCHANGED import_vars

(***************************************************************************)
(* health_check(): _make_request('GET', 'api/tags'), True or False         *)
(***************************************************************************)
CallHealthCheck(t) ==
    /\ CanCall(t)
    /\ th' = [th EXCEPT ![t] = [StartCall(t, "health_check", FALSE) EXCEPT !.pc = "request"]]
    /\ UNCHANGED <<max_retries, cache_duration, models_cache, models_cache_time, now, active,
                   cache_by, time_by>>
    /\ UNCHANGED import_vars

HcAfterRequest(t) ==
    /\ t \in active
    /\ th[t].pc = "after_request"
    /\ th[t].op = "health_check"
    /\ th' = [th EXCEPT ![t] =
         [@ EXCEPT !.pc = "done",
                   !.result = IF th[t].mr.kind = "response" THEN ReturnedHealth(TRUE)
                              ELSE IF IsOllamaError(th[t].mr.exc) THEN ReturnedHealth(FALSE)
                              ELSE Raised(th[t].mr.exc)]]
    /\ UNCHANGED <<max_retries, cache_duration, models_cache, models_cache_time, now, active,
                   cache_by, time_by>>
    /\ UNCHANGED import_vars

\* a second passes
Tick ==
    /\ now < MaxTime
    /\ now' = now + 1
    /\ UNCHANGED <<max_retries, cache_duration, models_cache, models_cache_time, active,
                   cache_by, time_by, th>>
    /\ UNCHANGED import_vars

(***************************************************************************)
(* Spec: import calls on a collection; the client is idle.                 *)
(***************************************************************************)
Init == ImportInit /\ ClientInitWith(DefaultMaxRetries, DefaultCacheDuration, {})

Next ==
    \/ \E b \in Batches, p \in Policies : ImportBegin(b, p)
    \/ ImportRecord
    \/ ImportCommit

Spec == Init /\ [][Next]_vars

(***************************************************************************)
(* SpecTwice: a client posts a batch with conflict_resolution "skip" and,  *)
(* once answered, posts the same request again.  calls is 2 from the       *)
(* beginning of the second call.                                           *)
(***************************************************************************)
ImportFirst(b) == calls = 0 /\ ImportBegin(b, "skip")

ImportRepeat ==
    /\ imp_pc = "idle"
    /\ calls = 1
    /\ calls' = 2
    /\ i' = 1
    /\ existing_prompts' = BuildExisting(db)
    /\ session_rows' = db
    /\ session_failed' = FALSE
    /\ results' = EmptyResults
    /\ response' = NoResponse
    /\ imp_pc' = IF batch = <<>> THEN "commit" ELSE "loop"
    /\ UNCHANGED <<db, batch, conflict_resolution, request, exported>>
    /\ UNCHANGED client_vars

NextTwice ==
    \/ \E b \in Batches : ImportFirst(b)
    \/ ImportRepeat
    \/ ImportRecord
    \/ ImportCommit

SpecTwice == Init /\ [][NextTwice]_vars

(***************************************************************************)
(* SpecLibrary: a collection is built from nothing by create and update    *)
(* requests and at most one uploaded import; it is then exported, emptied  *)
(* with delete requests, and the export is imported again.                 *)
(***************************************************************************)
\* {"name": "A/", "system_prompt": "p"}
RecSlash == Rec(S(<<"A", "/">>), S(<<"p">>), AbsentS, AbsentN, AbsentS)
\* {"name": " B| ", "system_prompt": "p", "model": "m"}
RecPipe == Rec(S(<<" ", "B", "|", " ">>), S(<<"p">>), S(<<"m">>), AbsentN, AbsentS)
\* a name of 255 characters and one of 256
RecLong255 == Rec(S(<<"x250", "B", "B", "B", "B", "B">>), S(<<"p">>), AbsentS, AbsentN, AbsentS)
RecLong256 ==
    Rec(S(<<"x250", "B", "B", "B", "B", "B", "B">>), S(<<"p">>), AbsentS, AbsentN, AbsentS)

CreateRequests == {RecA, RecLowerA, RecPadded, RecSlash, RecLong255, RecLong256}

\* {"name": "B"}, {"name": "a"}, {"name": "A:"}, {"system_prompt": "q", "temperature": 0.5}
UpdateRequests ==
    {[NoData EXCEPT !.name = S(<<"B">>)],
     [NoData EXCEPT !.name = S(<<"a">>)],
     [NoData EXCEPT !.name = S(<<"A", ":">>)],
     [NoData EXCEPT !.system_prompt = S(<<"q">>), !.temperature = N(5)]}

PromptIds == 1..(MaxPrompts + 1)

UploadRecords == {RecA, RecPipe}

UploadBatches == UNION {[1..n -> UploadRecords] : n \in 1..MaxBatch}

\* the collection built by create and update requests receives one upload
ImportUpload(b, p) ==
    /\ calls = 0
    /\ ~exported.done
    /\ ImportStart(b, p)
    /\ request' = [op |-> "import", id |-> 0, data |-> NoData]

InitLibrary == Init /\ db = <<>>

NextLibrary ==
    \/ \E data \in CreateRequests : CreatePrompt(data)
    \/ \E id \in PromptIds, data \in UpdateRequests : UpdatePrompt(id, data)
    \/ \E b \in UploadBatches, p \in Policies : ImportUpload(b, p)
    \/ ExportLibrary
    \/ \E id \in PromptIds : DeletePrompt(id)
    \/ ImportExport
    \/ ImportRecord
    \/ ImportCommit

SpecLibrary == InitLibrary /\ [][NextLibrary]_vars

(***************************************************************************)
(* SpecClient: one caller uses a client constructed with any max_retries   *)
(* and cache_duration within the bounds; no import runs.                   *)
(***************************************************************************)
IdleImportInit == ImportInit /\ db = <<>>

InitClient ==
    /\ IdleImportInit
    /\ \E retries \in 0..MaxRetries, duration \in 1..MaxCacheDuration :
          ClientInitWith(retries, duration, {1})

NextClient ==
    \/ \E t \in Threads, uc \in BOOLEAN : CallGetAvailableModels(t, uc)
    \/ \E t \in Threads : CallRefreshModelsCache(t)
    \/ \E t \in Threads : GamCopy(t)
    \/ \E t \in Threads, out \in Outcomes : Attempt(t, out)
    \/ \E t \in Threads : Sleep(t)
    \/ \E t \in Threads : RaiseLast(t)
    \/ \E t \in Threads : GamAfterRequest(t)
    \/ \E t \in Threads : GamStoreCache(t)
    \/ \E t \in Threads : GamStoreTime(t)
    \/ \E t \in Threads : CallClearModelsCache(t)
    \/ \E t \in Threads : ClearTime(t)
    \/ \E t \in Threads : CallGetCacheInfo(t)
    \/ \E t \in Threads : CallCheckConnection(t)
    \/ \E t \in Threads : CcAfterRequest(t)
    \/ Tick

SpecClient == InitClient /\ [][NextClient]_vars

(***************************************************************************)
(* SpecService: one caller uses every operation of a client constructed    *)
(* with any max_retries within the bounds.  GET api/tags is answered with  *)
(* a list of models and POST api/generate with a generation, or either     *)
(* fails.                                                                  *)
(***************************************************************************)
Failures ==
    {[kind |-> "timeout", status |-> 0, body |-> Garbage],
     [kind |-> "http", status |-> 404, body |-> Garbage],
     [kind |-> "http", status |-> 503, body |-> Garbage]}

TagsOutcomes ==
    {[kind |-> "ok", status |-> 200, body |-> Body(<<ModelLlama>>)],
     [kind |-> "ok", status |-> 200, body |-> Garbage]} \cup Failures

GenerateOutcomes ==
    {[kind |-> "ok", status |-> 200, body |-> b] : b \in GenBodies \cup {Garbage}}
    \cup Failures

OutcomesFor(op) == IF op \in GenerateOps THEN GenerateOutcomes ELSE TagsOutcomes

\* an attempt of a call is answered by the path the call asks
AttemptOf(t, out) == out \in OutcomesFor(th[t].op) /\ Attempt(t, out)

InitService ==
    /\ IdleImportInit
    /\ \E retries \in 0..MaxRetries : ClientInitWith(retries, 1, {1})

NextService ==
    \/ \E t \in Threads : CallGetAvailableModels(t, TRUE)
    \/ \E t \in Threads : CallRefreshModelsCache(t)
    \/ \E t \in Threads : GamCopy(t)
    \/ \E t \in Threads, out \in TagsOutcomes \cup GenerateOutcomes : AttemptOf(t, out)
    \/ \E t \in Threads : Sleep(t)
    \/ \E t \in Threads : RaiseLast(t)
    \/ \E t \in Threads : GamAfterRequest(t)
    \/ \E t \in Threads : GamStoreCache(t)
    \/ \E t \in Threads : GamStoreTime(t)
    \/ \E t \in Threads : CallClearModelsCache(t)
    \/ \E t \in Threads : ClearTime(t)
    \/ \E t \in Threads : CallGetCacheInfo(t)
    \/ \E t \in Threads : CallCheckConnection(t)
    \/ \E t \in Threads : CcAfterRequest(t)
    \/ \E t \in Threads : CallHealthCheck(t)
    \/ \E t \in Threads : HcAfterRequest(t)
    \/ \E t \in Threads : CallRefinePrompt(t)
    \/ \E t \in Threads : CallTestPrompt(t)
    \/ \E t \in Threads : GenAfterRequest(t)
    \/ Tick

SpecService == InitService /\ [][NextService]_vars

(***************************************************************************)
(* SpecConcurrent: two request threads use the global client within one    *)
(* second (the clock stands still), each running get_available_models(),   *)
(* refresh_models_cache(), clear_models_cache() and get_cache_info() in    *)
(* any order and at any speed.  The request loop does not touch the cache; *)
(* max_retries is 1, so that a failed attempt ends it without a sleep.     *)
(***************************************************************************)
ConcurrentOutcomes ==
    {[kind |-> "ok", status |-> 200, body |-> Body(<<ModelLlama>>)],
     [kind |-> "ok", status |-> 200, body |-> Body(<<ModelLlama, ModelCode>>)],
     [kind |-> "timeout", status |-> 0, body |-> Garbage]}

InitConcurrent == IdleImportInit /\ ClientInitWith(1, 1, Threads)

NextConcurrent ==
    \/ \E t \in Threads : CallGetAvailableModels(t, TRUE)
    \/ \E t \in Threads : CallRefreshModelsCache(t)
    \/ \E t \in Threads : GamCopy(t)
    \/ \E t \in Threads, out \in ConcurrentOutcomes : Attempt(t, out)
    \/ \E t \in Threads : RaiseLast(t)
    \/ \E t \in Threads : GamAfterRequest(t)
    \/ \E t \in Threads : GamStoreCache(t)
    \/ \E t \in Threads : GamStoreTime(t)
    \/ \E t \in Threads : CallClearModelsCache(t)
    \/ \E t \in Threads : ClearTime(t)
    \/ \E t \in Threads : CallGetCacheInfo(t)

SpecConcurrent == InitConcurrent /\ [][NextConcurrent]_vars


(***************************************************************************)
(* Properties of import_library                                            *)
(***************************************************************************)
BucketNames == {"imported", "skipped", "overwritten", "renamed", "errors"}

\* number of entries of a bucket that report the record at position k
Count(res, bucket, k) ==
    Cardinality({j \in 1..Len(res[bucket]) : res[bucket][j].idx = k})

RECURSIVE SumCount(_, _, _)
SumCount(res, buckets, k) ==
    IF buckets = {} THEN 0
    ELSE LET b == CHOOSE x \in buckets : TRUE
         IN  Count(res, b, k) + SumCount(res, buckets \ {b}, k)

Reported == response.kind = "report"

\* C1 as stated: the total of a report equals the length of the batch.
C1_TotalEqualsBatchLength ==
    Reported => response.total_processed = Len(batch)

\* C1, amended: in every report, totalProcessed is the sum of the sizes of
\* the five buckets and equals the number of records of the batch plus the
\* number of entries of renamed (a renamed record is reported twice).
C1_TotalIsBatchPlusRenamed ==
    Reported =>
        /\ response.total_processed =
              Len(response.results.imported) + Len(response.results.skipped)
              + Len(response.results.overwritten) + Len(response.results.renamed)
              + Len(response.results.errors)
        /\ response.total_processed = Len(batch) + Len(response.results.renamed)

\* a report of a batch of two with a renamed record and an errored record
C1_Witness ==
    /\ Reported
    /\ Len(batch) = 2
    /\ Len(response.results.renamed) >= 1
    /\ Len(response.results.errors) >= 1
    /\ response.total_processed > Len(batch)

\* C2 as stated: in every report, each record of the batch is in exactly
\* one of the five buckets.
C2_FiveBucketsPartition ==
    Reported =>
        \A k \in 1..Len(batch) : SumCount(response.results, BucketNames, k) = 1

\* C2, amended: in every report, each record of the batch is in exactly one
\* of imported, skipped, overwritten and errors (none is dropped); renamed
\* holds at most one further entry for a record, only under policy rename,
\* and only for a record that is also in imported or errors.
C2_FourBucketsPartition ==
    Reported =>
        \A k \in 1..Len(batch) :
            /\ SumCount(response.results, BucketNames \ {"renamed"}, k) = 1
            /\ Count(response.results, "renamed", k) <= 1
            /\ Count(response.results, "renamed", k) = 1 =>
                  /\ conflict_resolution = "rename"
                  /\ Count(response.results, "imported", k)
                     + Count(response.results, "errors", k) = 1

\* a report in which one record is skipped and another is errored, and one
\* in which a record is both renamed and imported
C2_Witness ==
    /\ Reported
    /\ Len(batch) = 2
    /\ \/ /\ Len(response.results.skipped) = 1
          /\ Len(response.results.errors) = 1
       \/ /\ Len(response.results.renamed) = 1
          /\ Len(response.results.imported) = 2


\* one of the field hooks of Prompt rejects a value the import hands to it
HookRejects(pd) ==
    \/ ~validate_system_prompt(pd.system_prompt).ok
    \/ ~validate_model(Get(pd.model, S(DefaultModel))).ok
    \/ ~validate_temperature(Get(pd.temperature, N(DefaultTemperature))).ok
    \/ ~validate_description(Get(pd.description, NoneS)).ok

\* the iteration over the JSON object pd fails a field validation:
\* validate_imported_prompt_data reports errors, or the record is not
\* skipped and a hook of Prompt rejects one of its fields (the name it is
\* created under included)
FailsFieldValidation(pd, policy, existing) ==
    \/ validate_imported_prompt_data(pd) # <<>>
    \/ LET conflict == lower(pd.name.v) \in DOMAIN existing
       IN  IF conflict /\ policy = "skip" THEN FALSE
           ELSE IF conflict /\ policy = "overwrite" THEN HookRejects(pd)
           ELSE \/ HookRejects(pd)
                \/ ~validate_name(S(IF conflict THEN generate_unique_name(pd.name.v, existing)
                                     ELSE pd.name.v)).ok

\* the entries of a bucket that report other records than the one at position k
OtherEntries(entries, k) == SelectSeq(entries, LAMBDA e : e.idx # k)

\* C13: no import call ends with an error response because of a record,
\* and the iteration over a record that fails field validation adds an
\* entry with the record's messages to errors and goes on to the next
\* record, while the rows of the session (what the commit stores), the
\* in-memory snapshot and the entries that report the other records stay
\* as they were: the other records are processed as if the record were
\* not in the batch.
C13_InvalidRecordIsIsolated ==
    [][/\ response'.kind # "error"
       /\ (/\ imp_pc = "loop"
           /\ i' # i
           /\ batch[i].dict
           /\ FailsFieldValidation(batch[i], conflict_resolution, existing_prompts)) =>
             /\ imp_pc' \in {"loop", "commit"}
             /\ session_rows' = session_rows
             /\ existing_prompts' = existing_prompts
             /\ session_failed' = session_failed
             /\ \A b \in BucketNames : OtherEntries(results'[b], i) = results[b]
             /\ \E k \in 1..Len(results'.errors) :
                   results'.errors[k].idx = i /\ results'.errors[k].errors # <<>>]_vars

\* a row of the table has this name up to case
Collides(name, rows) == \E k \in 1..Len(rows) : lower(rows[k].name) = lower(name)

\* the loop is about to process a JSON object that passes
\* validate_imported_prompt_data
ValidRecordNext ==
    /\ imp_pc = "loop"
    /\ batch[i].dict
    /\ validate_imported_prompt_data(batch[i]) = <<>>

\* C14: when the lowercase of an incoming valid record's name equals the
\* lowercase name of a row the session holds (stored before the import or
\* created earlier by this batch), the iteration treats it as a collision
\* under the policy: skip reports it in skipped and changes no row;
\* overwrite reports it in overwritten (or in errors) and creates no row;
\* rename reports it in renamed under its original name and creates no
\* row of a name the table already has up to case.
C14_CollisionIsCaseInsensitive ==
    [][(ValidRecordNext /\ i' # i /\ Collides(batch[i].name.v, session_rows)) =>
          /\ conflict_resolution = "skip" =>
                /\ Count(results', "skipped", i) = 1
                /\ Count(results', "imported", i) = 0
                /\ session_rows' = session_rows
          /\ conflict_resolution = "overwrite" =>
                /\ Count(results', "overwritten", i) + Count(results', "errors", i) = 1
                /\ Count(results', "imported", i) = 0
                /\ Len(session_rows') = Len(session_rows)
          /\ conflict_resolution = "rename" =>
                /\ Count(results', "renamed", i) = 1
                /\ \A k \in 1..Len(results'.renamed) :
                      results'.renamed[k].idx = i =>
                         /\ results'.renamed[k].original_name = batch[i].name.v
                         /\ ~Collides(results'.renamed[k].new_name, session_rows)
                /\ Len(session_rows') > Len(session_rows) =>
                      ~Collides(session_rows'[Len(session_rows')].name, session_rows)]_vars

\* the batch [A, a] imported into an empty collection under rename: "A" is
\* created, the second record is renamed to "a (1)"; 2 imported, 1 renamed
C14_Witness ==
    /\ Reported
    /\ conflict_resolution = "rename"
    /\ batch = <<RecA, RecLowerA>>
    /\ Len(db) = 2
    /\ db[1].name = <<"A">>
    /\ db[2].name = <<"a", " ", "(", "1", ")">>
    /\ Len(response.results.imported) = 2
    /\ Len(response.results.renamed) = 1
    /\ response.results.renamed[1].new_name = <<"a", " ", "(", "1", ")">>

\* original + " (N)"
Suffixed(original, n) == original \o <<" ", "(">> \o str(n) \o <<")">>

\* C15: under policy rename, the iteration over a valid record whose
\* lowercase name is in the snapshot reports it in renamed with the new
\* name original + " (N)", N being the smallest positive integer for which
\* the lowercase of that name is not in the snapshot at that moment; when
\* the record is created, it is stored and reported in imported under
\* exactly that name, and the snapshot gets the lowercase of that name.
C15_RenameTakesSmallestSuffix ==
    [][(/\ ValidRecordNext
        /\ i' # i
        /\ conflict_resolution = "rename"
        /\ lower(batch[i].name.v) \in DOMAIN existing_prompts) =>
          \E n \in 1..(Cardinality(DOMAIN existing_prompts) + 1) :
             LET new_name == Suffixed(batch[i].name.v, n)
             IN  /\ lower(new_name) \notin DOMAIN existing_prompts
                 /\ \A m \in 1..(n - 1) :
                       lower(Suffixed(batch[i].name.v, m)) \in DOMAIN existing_prompts
                 /\ Count(results', "renamed", i) = 1
                 /\ results'.renamed[Len(results'.renamed)] =
                       [idx |-> i, original_name |-> batch[i].name.v, new_name |-> new_name]
                 /\ Count(results', "imported", i) = 1 =>
                       /\ Len(session_rows') = Len(session_rows) + 1
                       /\ session_rows'[Len(session_rows')].name = new_name
                       /\ results'.imported[Len(results'.imported)].name = new_name
                       /\ lower(new_name) \in DOMAIN existing_prompts'
                 /\ Count(results', "imported", i) = 0 =>
                       /\ Count(results', "errors", i) = 1
                       /\ Len(session_rows') <= Len(session_rows)]_vars

\* two records named "A" imported under rename into a collection that has
\* "A": they are stored as "A (1)" and "A (2)", in the order of the batch
C15_Witness ==
    /\ Reported
    /\ conflict_resolution = "rename"
    /\ batch = <<RecA, RecA>>
    /\ Len(db) = 3
    /\ db[1].name = <<"A">>
    /\ db[2].name = <<"A", " ", "(", "1", ")">>
    /\ db[3].name = <<"A", " ", "(", "2", ")">>
    /\ Len(response.results.renamed) = 2
    /\ response.results.renamed[1].new_name = db[2].name
    /\ response.results.renamed[2].new_name = db[3].name

\* the values the columns take from an incoming record, as stored: texts
\* are trimmed, an omitted model is "llama2", an omitted temperature is
\* 0.7, an omitted, null or blank description is NULL
StoredSystemPrompt(pd) == strip(pd.system_prompt.v)
StoredModel(pd) == IF Has(pd.model) THEN strip(pd.model.v) ELSE <<"llama2">>
StoredTemperature(pd) == IF Has(pd.temperature) THEN pd.temperature.v ELSE 7
StoredDescription(pd) ==
    IF pd.description.k = "str" /\ strip(pd.description.v) # <<>>
    THEN S(strip(pd.description.v)) ELSE NoneS

C17_SkipChangesNothing ==
    [][/\ (/\ ValidRecordNext
           /\ i' # i
           /\ conflict_resolution = "skip"
           /\ lower(batch[i].name.v) \in DOMAIN existing_prompts) =>
             /\ session_rows' = session_rows
             /\ existing_prompts' = existing_prompts
             /\ session_failed' = session_failed
             /\ results'.skipped =
                   Append(results.skipped,
                          [idx |-> i, name |-> batch[i].name.v, reason |-> "Name already exists"])
             /\ \A b \in BucketNames \ {"skipped"} : results'[b] = results[b]
       /\ (/\ imp_pc = "commit"
           /\ imp_pc' = "idle"
           /\ conflict_resolution = "skip"
           /\ Len(results.skipped) = Len(batch)) =>
             /\ db' = db
             /\ response'.kind = "report"
             /\ response'.results.skipped = results.skipped
             /\ response'.results.imported = <<>>]_vars

\* a report of a batch of two under skip with both records skipped, the
\* second one a record whose name differs in case from the stored name
C17_Witness ==
    /\ Reported
    /\ conflict_resolution = "skip"
    /\ batch = <<RecA, RecLowerA>>
    /\ Len(response.results.skipped) = 2
    /\ db = <<Row(1, <<"A">>, <<"o">>)>>

\* every record of the batch is a JSON object that passes
\* validate_imported_prompt_data and whose fields the hooks of Prompt accept
AllRecordsValid ==
    \A k \in 1..Len(batch) :
        /\ batch[k].dict
        /\ validate_imported_prompt_data(batch[k]) = <<>>
        /\ validate_name(batch[k].name).ok
        /\ ~HookRejects(batch[k])

\* C18, for batches of valid records: when a batch is imported under skip
\* and the same request is made again, the second call creates and
\* changes nothing (the rows of its session are the stored rows
\* throughout) and answers with a report in which imported is empty and
\* every record of the batch is in skipped.
C18_SecondSkipImportSkipsAll ==
    (calls = 2 /\ AllRecordsValid) =>
        /\ imp_pc \in {"loop", "commit"} =>
              /\ session_rows = db
              /\ results.imported = <<>>
              /\ results.errors = <<>>
              /\ ~session_failed
        /\ imp_pc = "idle" =>
              /\ response.kind = "report"
              /\ response.results.imported = <<>>
              /\ Len(response.results.skipped) = Len(batch)
              /\ \A k \in 1..Len(batch) : Count(response.results, "skipped", k) = 1

(***************************************************************************)
(* Properties of the prompt library                                        *)
(***************************************************************************)
\* the import of the export has been answered
RoundTripDone == exported.done /\ request.op = "import" /\ imp_pc = "idle"

\* the collection holds a record with the name, system prompt, model and
\* temperature of the original
Restored(original) ==
    \E j \in 1..Len(db) :
        /\ db[j].name = original.name
        /\ db[j].system_prompt = original.system_prompt
        /\ db[j].model = original.model
        /\ db[j].temperature = original.temperature

RoundTripComplete ==
    /\ response.kind = "report"
    /\ Len(response.results.imported) = Len(exported.prompts)
    /\ response.results.skipped = <<>>
    /\ response.results.errors = <<>>
    /\ \A k \in 1..Len(exported.prompts) : Restored(exported.prompts[k])

\* C19: for every stored collection of N prompts, importing its export with
\* conflict_resolution "skip" into the emptied collection reports N imported
\* records, none skipped and none in errors, and every original is restored
\* with its name, system prompt, model and temperature.
C19_RoundTripRestoresCollection == RoundTripDone => RoundTripComplete

\* the same for the collections whose names differ in more than their case
DistinctIgnoringCase(prompts) ==
    \A k, m \in 1..Len(prompts) : lower(prompts[k].name) = lower(prompts[m].name) => k = m

RoundTripOfDistinctNames ==
    (RoundTripDone /\ DistinctIgnoringCase(exported.prompts)) => RoundTripComplete

\* the characters a prompt name may not contain
ForbiddenCharacters == {"/", "\\", ":", "*", "?", "\"", "<", ">", "|"}

HasForbidden(name) == \E k \in 1..Len(name) : name[k] \in ForbiddenCharacters

\* no forbidden character, not empty after trimming, at most 255 characters
AcceptableName(name) == ~HasForbidden(name) /\ strip(name) # <<>> /\ len(name) <= 255

\* a create or update request that carries a name
NamedRequest == request.op \in {"create", "update"} /\ request.data.name.k = "str"

\* C20: a name with a forbidden character fails validate_name; a create or
\* update request with such a name is refused (an update of an unknown id
\* with NOT_FOUND) and an imported record with such a name is reported in
\* errors and nowhere else; no stored or pending row ever has such a name.
\* A name without forbidden characters that is not empty after trimming and
\* has at most 255 characters passes validate_name and both validators, and
\* the request that carries it is not refused with VALIDATION_ERROR.
C20_ForbiddenNamesAreRefused ==
    /\ \A j \in 1..Len(db) : ~HasForbidden(db[j].name)
    /\ \A j \in 1..Len(session_rows) : ~HasForbidden(session_rows[j].name)
    /\ (NamedRequest /\ HasForbidden(request.data.name.v)) =>
          /\ ~validate_name(request.data.name).ok
          /\ \/ response.code = "VALIDATION_ERROR"
             \/ /\ request.op = "update"
                /\ ~HasId(db, request.id)
                /\ response.code = "NOT_FOUND"
    /\ (NamedRequest /\ AcceptableName(request.data.name.v)) =>
          /\ validate_name(request.data.name).ok
          /\ "name" \notin validate_prompt_data(request.data, {"name", "system_prompt"}).errors
          /\ response.code # "VALIDATION_ERROR"
    /\ \A k \in 1..Len(batch) :
          (k < i /\ batch[k].dict /\ batch[k].name.k = "str") =>
             /\ HasForbidden(batch[k].name.v) =>
                   /\ Count(results, "errors", k) = 1
                   /\ SumCount(results, BucketNames \ {"errors"}, k) = 0
                   /\ response.kind = "report" => Count(response.results, "errors", k) = 1
             /\ AcceptableName(batch[k].name.v) =>
                   \A j \in 1..Len(validate_imported_prompt_data(batch[k])) :
                       validate_imported_prompt_data(batch[k])[j]
                           \notin {"Name is required", "Name must be a string",
                                   "Name cannot exceed 255 characters",
                                   "Name cannot be empty"}

\* an import has answered with a report that lists a record with a forbidden
\* character in errors, next to a record it has stored
C20_Witness ==
    /\ response.kind = "report"
    /\ request.op = "import"
    /\ db # <<>>
    /\ \E k \in 1..Len(batch) :
          /\ HasForbidden(batch[k].name.v)
          /\ Count(response.results, "errors", k) = 1
    /\ \E k \in 1..Len(batch) : Count(response.results, "imported", k) = 1

\* a create request and an update request with a forbidden character have
\* been refused; a name of 255 characters has been stored
CreateRefusedForName ==
    /\ request.op = "create"
    /\ HasForbidden(request.data.name.v)
    /\ response.code = "VALIDATION_ERROR"

UpdateRefusedForName ==
    /\ request.op = "update"
    /\ HasForbidden(request.data.name.v)
    /\ HasId(db, request.id)
    /\ response.code = "VALIDATION_ERROR"

LongestNameStored == \E j \in 1..Len(db) : len(db[j].name) = NameMaxLen

\* no two stored records have the same name
NamesUnique(rows) == \A j, k \in 1..Len(rows) : rows[j].name = rows[k].name => j = k

\* the name a create request asks for is the name of a stored record
CreateOfStoredName ==
    /\ request'.op = "create"
    /\ request'.data.name.k = "str"
    /\ \E j \in 1..Len(db) : db[j].name = strip(request'.data.name.v)

\* C21: at every moment of a sequence of create, update, delete and import
\* requests the stored names are pairwise different (case-sensitive), and a
\* create request for the name of a stored record is answered DUPLICATE_NAME
\* and leaves the table as it was.
C21_StoredNamesAreUnique ==
    /\ [](NamesUnique(db) /\ NamesUnique(session_rows))
    /\ [][CreateOfStoredName => (response'.code = "DUPLICATE_NAME" /\ db' = db)]_vars

\* a create request has been answered DUPLICATE_NAME
C21_Witness ==
    /\ request.op = "create"
    /\ response.code = "DUPLICATE_NAME"
    /\ \E j \in 1..Len(db) : db[j].name = strip(request.data.name.v)
    /\ Len(db) = 1

\* every key of the snapshot is the lowercased name of the row it maps to
SnapshotMatchesRows ==
    \A key \in DOMAIN existing_prompts :
        \E j \in 1..Len(session_rows) :
            /\ session_rows[j].id = existing_prompts[key]
            /\ lower(session_rows[j].name) = key

\* C27: while import_library runs, every key of existing_prompts maps to one
\* row whose stored name lowercases to the key, and the loop never hands the
\* table a row whose stored name is the name of another row: no flush fails
\* on the UNIQUE constraint, also for incoming names with blanks around
\* them, which the Prompt model trims.
C27_SnapshotPreventsDuplicateStores ==
    imp_pc \in {"loop", "commit"} => (SnapshotMatchesRows /\ ~session_failed)

(***************************************************************************)
(* Properties of the retry loop of _make_request                           *)
(***************************************************************************)
\* _make_request has returned or raised in the call of caller t
Finished(t) == th[t].mr.kind # "none"

AllOutcomesIn(t, kinds) == \A k \in 1..Len(th[t].outcomes) : th[t].outcomes[k] \in kinds

IsGam(t) == th[t].op \in {"get_available_models", "refresh_models_cache"}

\* C3: with max_retries >= 1, an operation whose every attempt timed out
\* has issued exactly max_retries requests and raised OllamaTimeoutError,
\* which get_available_models passes on to its caller.
C3_TimeoutsExhaustRetries ==
    \A t \in active :
        (Finished(t) /\ max_retries >= 1 /\ AllOutcomesIn(t, {"timeout"})) =>
            /\ th[t].call_count = max_retries
            /\ Len(th[t].outcomes) = max_retries
            /\ th[t].mr.kind = "raise"
            /\ th[t].mr.exc.cls = OllamaTimeoutError
            /\ th[t].mr.exc.msg = "Request timed out"
            /\ (th[t].pc = "done" /\ IsGam(t)) =>
                  (th[t].result.kind = "raise" /\ th[t].result.exc.cls = OllamaTimeoutError)

\* three timeouts in a row with max_retries = 3, surfaced to the caller
C3_Witness ==
    \E t \in active :
        /\ max_retries = 3
        /\ th[t].pc = "done"
        /\ th[t].outcomes = <<"timeout", "timeout", "timeout">>
        /\ th[t].call_count = 3
        /\ th[t].result.kind = "raise"

\* C4: an attempt that receives a 4xx is the last request of the operation:
\* the operation has raised the API error with the status code and the
\* body of that response, and neither retries nor sleeps; a 4xx on the
\* first attempt leaves exactly one request.
C4_ClientErrorNotRetried ==
    \A t \in active :
        \A k \in 1..Len(th[t].outcomes) :
            th[t].outcomes[k] = "client_error" =>
                /\ k = Len(th[t].outcomes)
                /\ th[t].call_count = k
                /\ th[t].pc \notin {"request", "sleep"}
                /\ th[t].mr.kind = "raise"
                /\ th[t].mr.exc.cls = OllamaConnectionError
                /\ th[t].mr.exc.msg = "Ollama API error"
                /\ th[t].mr.exc.status = th[t].last_out.status
                /\ th[t].mr.exc.status \in 400..499
                /\ th[t].mr.exc.text = TextOf(th[t].last_out.status)
                /\ th[t].waits = [j \in 1..(k - 1) |-> 2 ^ (j - 1)]

\* a 404 on the first attempt of a client that would retry
C4_Witness ==
    \E t \in active :
        /\ max_retries = 3
        /\ th[t].pc = "done"
        /\ th[t].outcomes = <<"client_error">>
        /\ th[t].call_count = 1
        /\ th[t].result.exc.status = 404

\* C5: with max_retries >= 1, an operation whose every attempt failed with
\* a connection error or a 5xx has issued exactly max_retries requests and
\* raised OllamaConnectionError; after a final 5xx the error carries that
\* status code.
C5_UnreachableExhaustsRetries ==
    \A t \in active :
        (Finished(t) /\ max_retries >= 1 /\ AllOutcomesIn(t, {"connection", "server_error"})) =>
            /\ th[t].call_count = max_retries
            /\ Len(th[t].outcomes) = max_retries
            /\ th[t].mr.kind = "raise"
            /\ th[t].mr.exc.cls = OllamaConnectionError
            /\ th[t].last_out.kind = "http" =>
                  /\ th[t].mr.exc.msg = "Ollama server error"
                  /\ th[t].mr.exc.status = th[t].last_out.status
                  /\ th[t].mr.exc.status >= 500
            /\ th[t].last_out.kind = "connection" =>
                  th[t].mr.exc.msg = "Failed to connect to Ollama"
            /\ (th[t].pc = "done" /\ IsGam(t)) =>
                  (th[t].result.kind = "raise" /\ th[t].result.exc = th[t].mr.exc)

\* three 5xx answers in a row with max_retries = 3, the last one a 503
C5_Witness ==
    \E t \in active :
        /\ max_retries = 3
        /\ th[t].pc = "done"
        /\ th[t].outcomes = <<"server_error", "server_error", "server_error">>
        /\ th[t].call_count = 3
        /\ th[t].result.exc.status = 503

Retryable == {"timeout", "connection", "server_error", "other"}

\* C6: when all max_retries >= 1 attempts failed with retryable failures
\* of any kinds, the error raised is the classification of the final
\* attempt alone: a timeout gives OllamaTimeoutError, a connection error,
\* a 5xx (with its status) or another exception gives OllamaConnectionError
\* with the message of that kind.
C6_LastFailureWins ==
    \A t \in active :
        (Finished(t) /\ Len(th[t].outcomes) >= 1 /\ AllOutcomesIn(t, Retryable)) =>
            /\ Len(th[t].outcomes) = max_retries
            /\ th[t].mr.kind = "raise"
            /\ th[t].last_out.kind = "timeout" =>
                  th[t].mr.exc = Exc(OllamaTimeoutError, "Request timed out", 0, "")
            /\ th[t].last_out.kind = "connection" =>
                  th[t].mr.exc = Exc(OllamaConnectionError, "Failed to connect to Ollama", 0, "")
            /\ th[t].last_out.kind = "http" =>
                  th[t].mr.exc = Exc(OllamaConnectionError, "Ollama server error",
                                     th[t].last_out.status, "")
            /\ th[t].last_out.kind = "other" =>
                  th[t].mr.exc = Exc(OllamaConnectionError,
                                     "Unexpected error communicating with Ollama", 0, "")
            /\ (th[t].pc = "done" /\ IsGam(t)) => th[t].result = Raised(th[t].mr.exc)

\* a timeout, then a connection error, then a 5xx: the caller sees the 5xx
C6_Witness ==
    \E t \in active :
        /\ th[t].pc = "done"
        /\ th[t].outcomes = <<"timeout", "connection", "server_error">>
        /\ th[t].result.kind = "raise"
        /\ th[t].result.exc.msg = "Ollama server error"

(***************************************************************************)
(* Properties of the model cache, for one caller                           *)
(***************************************************************************)
\* the cache as the call of caller t found it: populated, and its age
EntryCached(t) == th[t].entry.cache.k = "list" /\ th[t].entry.time.k = "time"
EntryAge(t) == th[t].entry.now - th[t].entry.time.v

\* the list a parsable answer is turned into has the answer's models, in order
SameModels(models, raw) ==
    /\ Len(models) = Len(raw)
    /\ \A k \in 1..Len(raw) : models[k].name = raw[k].name /\ models[k].size = raw[k].size

\* the cache holds the list the call returned, captured during the call
CacheReplacedBy(t) ==
    /\ models_cache = Cached(th[t].result.models)
    /\ models_cache_time.k = "time"
    /\ models_cache_time.v >= th[t].entry.now
    /\ models_cache_time.v <= now

\* C7: a get_available_models(use_cache=True) call made while a populated
\* cache is younger than cache_duration never enters the request loop: it
\* issues no request, returns a list equal to the snapshot, and leaves the
\* snapshot and its capture time as they were.
C7_ValidCacheIsServed ==
    \A t \in active :
        (/\ th[t].op = "get_available_models"
         /\ th[t].use_cache
         /\ EntryCached(t)
         /\ EntryAge(t) < cache_duration) =>
            /\ th[t].pc \in {"gam_copy", "done"}
            /\ th[t].call_count = 0
            /\ models_cache = th[t].entry.cache
            /\ models_cache_time = th[t].entry.time
            /\ th[t].pc = "done" => th[t].result = Returned(th[t].entry.cache.v)

\* a second call one second after the fetch, served from a cache of two models
C7_Witness ==
    \E t \in active :
        /\ th[t].op = "get_available_models"
        /\ th[t].use_cache
        /\ th[t].pc = "done"
        /\ EntryCached(t)
        /\ EntryAge(t) = 1
        /\ cache_duration = 2
        /\ th[t].call_count = 0
        /\ Len(th[t].result.models) = 2

\* C8: a get_available_models(use_cache=True) call made when the snapshot
\* is cache_duration seconds old or older (an age equal to cache_duration
\* included) never answers from the cache; when its first attempt is
\* answered with a parsable list, it has on return issued exactly one
\* request, returns the list built from that answer, and has replaced the
\* cache by that list with a new capture time taken during the call.
C8_ExpiredCacheIsRefetched ==
    \A t \in active :
        (/\ th[t].op = "get_available_models"
         /\ th[t].use_cache
         /\ EntryCached(t)
         /\ EntryAge(t) >= cache_duration) =>
            /\ th[t].pc # "gam_copy"
            /\ (th[t].pc = "done" /\ th[t].result.kind = "return") => th[t].call_count >= 1
            /\ (/\ th[t].pc = "done"
                /\ Len(th[t].outcomes) >= 1
                /\ th[t].outcomes[1] = "ok"
                /\ th[t].last_out.body.parsable) =>
                  /\ th[t].call_count = 1
                  /\ th[t].result.kind = "return"
                  /\ SameModels(th[t].result.models, th[t].last_out.body.models)
                  /\ CacheReplacedBy(t)
                  /\ models_cache_time.v > th[t].entry.time.v

\* a call at an age exactly equal to cache_duration that fetched a list
\* different from the snapshot
C8_Witness ==
    \E t \in active :
        /\ th[t].op = "get_available_models"
        /\ th[t].use_cache
        /\ th[t].pc = "done"
        /\ EntryCached(t)
        /\ EntryAge(t) = cache_duration
        /\ th[t].call_count = 1
        /\ th[t].result.kind = "return"
        /\ th[t].result.models # th[t].entry.cache.v
        /\ models_cache.v = th[t].result.models

\* C9: refresh_models_cache is get_available_models(use_cache=False) in
\* every cache state: it never answers from the cache but runs the request
\* loop, which issues a request (max_retries >= 1); when it returns, it
\* returns the list built from the answer and has replaced the cache by
\* that list with a capture time taken during the call.
C9_RefreshBypassesCache ==
    \A t \in active :
        th[t].op = "refresh_models_cache" =>
            /\ ~th[t].use_cache
            /\ th[t].pc # "gam_copy"
            /\ (max_retries >= 1 /\ th[t].pc \notin {"request"}) => th[t].call_count >= 1
            /\ (th[t].pc = "done" /\ th[t].result.kind = "return") =>
                  /\ SameModels(th[t].result.models, th[t].last_out.body.models)
                  /\ CacheReplacedBy(t)
            /\ (th[t].pc = "done" /\ th[t].result.kind = "raise") =>
                  /\ models_cache = th[t].entry.cache
                  /\ models_cache_time = th[t].entry.time

\* a refresh begun on a valid cache that fetched a different list
C9_Witness ==
    \E t \in active :
        /\ th[t].op = "refresh_models_cache"
        /\ th[t].pc = "done"
        /\ EntryCached(t)
        /\ EntryAge(t) < cache_duration
        /\ th[t].call_count = 1
        /\ th[t].result.kind = "return"
        /\ th[t].result.models # th[t].entry.cache.v
        /\ models_cache.v = th[t].result.models

\* C10: once clear_models_cache has returned, whatever the cache was, the
\* snapshot and the capture time are both None; a get_cache_info that
\* follows reports cached, cache_valid false and models_count 0; and a
\* get_available_models(use_cache=True) that follows does not answer from
\* the cache but runs the request loop, which issues a request
\* (max_retries >= 1).
C10_ClearDiscardsCache ==
    \A t \in active :
        /\ (th[t].op = "clear_models_cache" /\ th[t].pc = "done") =>
              (models_cache = NoCache /\ models_cache_time = NoTime)
        /\ (th[t].op = "get_cache_info" /\ th[t].prev_op = "clear_models_cache") =>
              /\ ~th[t].result.info.cached
              /\ ~th[t].result.info.cache_valid
              /\ th[t].result.info.models_count = 0
        /\ (th[t].op = "get_available_models" /\ th[t].prev_op = "clear_models_cache") =>
              /\ th[t].pc # "gam_copy"
              /\ (max_retries >= 1 /\ th[t].pc # "request") => th[t].call_count >= 1

\* a clear of a cache that was valid and held two models
C10_Witness ==
    \E t \in active :
        /\ th[t].op = "clear_models_cache"
        /\ th[t].pc = "done"
        /\ EntryCached(t)
        /\ EntryAge(t) < cache_duration
        /\ Len(th[t].entry.cache.v) = 2
        /\ models_cache = NoCache
        /\ models_cache_time = NoTime

WholePair(e) ==
    \/ e.cache.k = "none" /\ e.time.k = "none"
    \/ /\ e.cache.k = "list"
       /\ e.time.k = "time"
       /\ e.cache_by = e.time_by
       /\ e.cache_by # 0

\* C11: with concurrent callers, the snapshot and the capture time that
\* get_cache_info reads are both None or were written by one and the same
\* fetch, and the snapshot a get_available_models call copies from the
\* cache was written by the fetch that wrote the capture time the call
\* validated.
C11_NoHalfUpdatedRead ==
    \A t \in active :
        /\ (th[t].op = "get_cache_info" /\ th[t].pc = "done") => WholePair(th[t].entry)
        /\ (/\ th[t].op = "get_available_models"
            /\ th[t].pc = "done"
            /\ th[t].call_count = 0
            /\ th[t].result.kind = "return") =>
                (th[t].copy_by = th[t].entry.time_by /\ th[t].copy_by # 0)

\* the step issues a request of caller t
IssuesRequest(t) == th'[t].call_count = th[t].call_count + 1

\* C23: a request is issued only by a call that is at the head of its loop,
\* and never beyond max_retries requests; every request after the first
\* follows a retryable failure of the request before it and a wait of
\* 2^i seconds (i the 0-based index of the failed attempt) that has elapsed.
\* The waits of a call are 1, 2, 4, ... in this order, one after each
\* failed attempt but the last: none follows the final attempt, and nothing
\* follows a successful attempt or a 4xx.
C23_AttemptsAreSequentialWithBackoff ==
    /\ [][\A t \in active :
            IssuesRequest(t) =>
               /\ th[t].pc = "request"
               /\ th[t].call_count < max_retries
               /\ th[t].call_count >= 1 =>
                     /\ th[t].outcomes[th[t].call_count] \in Retryable
                     /\ Len(th[t].waits) = th[t].call_count
                     /\ th[t].waits[th[t].call_count] = 2 ^ (th[t].call_count - 1)
                     /\ now >= th[t].wake]_vars
    /\ [](\A t \in active :
            /\ th[t].call_count <= max_retries
            /\ th[t].call_count = Len(th[t].outcomes)
            /\ \A k \in 1..Len(th[t].waits) : th[t].waits[k] = 2 ^ (k - 1)
            /\ Len(th[t].waits) <= th[t].call_count
            /\ Len(th[t].waits) < max_retries \/ max_retries = 0
            /\ (Finished(t) /\ th[t].call_count >= 1) =>
                  Len(th[t].waits) = th[t].call_count - 1
            /\ \A k \in 1..Len(th[t].outcomes) :
                  th[t].outcomes[k] \in {"ok", "client_error"} => k = Len(th[t].outcomes))

\* a call with max_retries = 3 succeeded at its third attempt after waits of
\* one and two seconds
C23_Witness ==
    \E t \in active :
        /\ max_retries = 3
        /\ th[t].outcomes = <<"timeout", "server_error", "ok">>
        /\ th[t].waits = <<1, 2>>
        /\ now >= 3
        /\ Finished(t)

(***************************************************************************)
(* Properties of refine_prompt and test_prompt                             *)
(***************************************************************************)
\* a successful answer whose generation text is empty, blank or missing
BlankAnswer(out) ==
    /\ out.kind = "ok"
    /\ out.body.parsable
    /\ \/ "response" \notin DOMAIN out.body
       \/ out.body.response.k = "absent"
       \/ /\ out.body.response.k = "str"
          /\ \A k \in 1..Len(out.body.response.v) : out.body.response.v[k] = " "

\* C22: when the latest answer to a refine_prompt or test_prompt call is a
\* blank generation, no further request follows it (it is the only
\* successful answer of the call, and the only request when it answers the
\* first attempt) and the call ends by raising the empty-response error,
\* returning nothing.
C22_BlankGenerationIsAnError ==
    \A t \in active :
        (th[t].op \in GenerateOps /\ BlankAnswer(th[t].last_out)) =>
            /\ th[t].pc \in {"after_request", "done"}
            /\ th[t].call_count = Len(th[t].outcomes)
            /\ th[t].outcomes[Len(th[t].outcomes)] = "ok"
            /\ Cardinality({k \in 1..Len(th[t].outcomes) : th[t].outcomes[k] = "ok"}) = 1
            /\ th[t].outcomes[1] = "ok" => th[t].call_count = 1
            /\ th[t].pc = "done" => th[t].result = Raised(EmptyResponse(th[t].op))

\* test_prompt was answered with blanks only at its first attempt and has raised
C22_Witness ==
    \E t \in active :
        /\ th[t].op = "test_prompt"
        /\ th[t].pc = "done"
        /\ th[t].last_out.body = GenBody(S(<<" ", " ">>))
        /\ th[t].call_count = 1
        /\ th[t].result.kind = "raise"

(***************************************************************************)
(* Properties of the model cache, for one caller of every operation        *)
(***************************************************************************)
CacheChanges == models_cache' # models_cache \/ models_cache_time' # models_cache_time

\* the operations that only read the client
ReadingOps ==
    {"get_cache_info", "check_connection", "health_check", "refine_prompt", "test_prompt"}

\* the step is a store of a fetch of caller t that _make_request answered,
\* or one of the two assignments of clear_models_cache
StoreOfFetch(t) ==
    /\ IsGam(t)
    /\ th[t].pc \in {"gam_store_cache", "gam_store_time"}
    /\ th[t].mr.kind = "response"
    /\ th[t].mr.body.parsable

ClearStep(t) == th'[t].op = "clear_models_cache" /\ th'[t].pc \in {"clear_time", "done"}

\* C24: _models_cache and _models_cache_time change only in the store of a
\* successful fetch of get_available_models or refresh_models_cache and in
\* clear_models_cache; no step of get_cache_info, check_connection,
\* health_check, refine_prompt or test_prompt changes them, whatever its
\* outcome, and no passing of time does; get_cache_info issues no request,
\* and for a snapshot older than cache_duration it reports cached true and
\* cache_valid false.
C24_CacheChangesOnlyByFetchAndClear ==
    /\ [][CacheChanges => \E t \in active : StoreOfFetch(t) \/ ClearStep(t)]_vars
    /\ [][(\E t \in active : th'[t].op \in ReadingOps) => ~CacheChanges]_vars
    /\ [][now' # now => ~CacheChanges]_vars
    /\ [](\A t \in active :
            th[t].op = "get_cache_info" =>
               /\ th[t].call_count = 0
               /\ (/\ th[t].pc = "done"
                   /\ th[t].entry.cache.k = "list"
                   /\ th[t].entry.time.k = "time"
                   /\ th[t].entry.now >= th[t].entry.time.v + cache_duration) =>
                      /\ th[t].result.info.cached
                      /\ ~th[t].result.info.cache_valid
                      /\ th[t].result.info.models_count = Len(th[t].entry.cache.v))

\* get_cache_info has reported a snapshot two seconds old, with
\* cache_duration = 1, as cached and not valid, and the snapshot is still there
C24_Witness ==
    \E t \in active :
        /\ th[t].op = "get_cache_info"
        /\ th[t].pc = "done"
        /\ th[t].entry.now >= th[t].entry.time.v + 2
        /\ th[t].result.info.cached
        /\ ~th[t].result.info.cache_valid
        /\ models_cache = th[t].entry.cache
        /\ models_cache.k = "list"

(***************************************************************************)
(* Properties of a fetch that fails                                        *)
(***************************************************************************)
\* the call of get_available_models or refresh_models_cache of caller t has raised
FailedFetch(t) == IsGam(t) /\ th[t].pc = "done" /\ th[t].result.kind = "raise"

\* the step begins a call get_available_models(use_cache=True) of caller t
BeginsCachedList(t) ==
    /\ th'[t].op = "get_available_models"
    /\ th'[t].use_cache
    /\ th'[t].pc # "done"
    /\ th[t].pc = "done"

\* C25: when get_available_models or refresh_models_cache raises (retries
\* exhausted, a 4xx or an answer that cannot be parsed), _models_cache and
\* _models_cache_time are what they were when the call began; a call
\* get_available_models(use_cache=True) that follows while the snapshot is
\* within cache_duration goes to the snapshot, issues no request and
\* returns the snapshot.
C25_FailedFetchKeepsCache ==
    /\ [](\A t \in active :
            FailedFetch(t) =>
               /\ models_cache = th[t].entry.cache
               /\ models_cache_time = th[t].entry.time)
    /\ [][\A t \in active :
            (/\ FailedFetch(t)
             /\ BeginsCachedList(t)
             /\ models_cache.k = "list"
             /\ models_cache_time.k = "time"
             /\ now < models_cache_time.v + cache_duration) =>
                /\ th'[t].pc = "gam_copy"
                /\ UNCHANGED <<models_cache, models_cache_time>>]_vars
    /\ [][\A t \in active :
            (th[t].pc = "gam_copy" /\ th'[t].pc = "done") =>
                /\ th'[t].result = Returned(th[t].entry.cache.v)
                /\ th'[t].call_count = 0]_vars

\* a refresh has failed after max_retries requests and the snapshot of the
\* fetch before it is still there and within cache_duration
C25_Witness ==
    \E t \in active :
        /\ FailedFetch(t)
        /\ th[t].call_count = max_retries
        /\ max_retries >= 2
        /\ models_cache.k = "list"
        /\ models_cache.v # <<>>
        /\ models_cache_time.k = "time"
        /\ now < models_cache_time.v + cache_duration

\* C26: a call of get_available_models(use_cache=True) or get_cache_info
\* that runs while another caller clears the cache ends normally: if it
\* raises at all, it raises one of the two errors of the endpoint.
C26_ReaderSurvivesClear ==
    \A t \in active :
        (/\ th[t].op \in {"get_available_models", "get_cache_info"}
         /\ th[t].pc = "done"
         /\ th[t].result.kind = "raise") => IsOllamaError(th[t].result.exc)

(***************************************************************************)
(* Properties of the transaction of import_library                         *)
(***************************************************************************)
\* the entry of overwritten that is the last one reported for its row
LastOverwriteOf(res, k) ==
    \A m \in (k + 1)..Len(res.overwritten) : res.overwritten[m].id # res.overwritten[k].id

\* the row holds what the record at position idx of the batch brought
CarriesIncoming(row, pd) ==
    /\ row.description = StoredDescription(pd)
    /\ row.system_prompt = StoredSystemPrompt(pd)
    /\ row.model = StoredModel(pd)
    /\ row.temperature = StoredTemperature(pd)

\* C28: import changes the table atomically.  While a call is in progress
\* the table changes only in the step that commits and answers with the
\* report; a call that ends with an error response leaves the table as it
\* was before the call; and when the call ends with the report, every
\* entry of imported is a row of the table with that id and name, and the
\* row of every entry of overwritten carries the values of the record that
\* was reported for it (of the last such record, when several records of
\* the batch overwrote the same row).
C28_ImportIsAtomic ==
    [][imp_pc # "idle" =>
        /\ (db' # db => (imp_pc = "commit" /\ response'.kind = "report"))
        /\ (response'.kind = "error" => db' = db)
        /\ ((imp_pc = "commit" /\ response'.kind = "report") =>
              LET res == response'.results
              IN  /\ \A k \in 1..Len(res.imported) :
                        \E r \in 1..Len(db') :
                            /\ db'[r].id = res.imported[k].id
                            /\ db'[r].name = res.imported[k].name
                  /\ \A k \in 1..Len(res.overwritten) :
                        LastOverwriteOf(res, k) =>
                            \E r \in 1..Len(db') :
                                /\ db'[r].id = res.overwritten[k].id
                                /\ CarriesIncoming(db'[r], batch[res.overwritten[k].idx]))]_vars

(***************************************************************************)
(* Properties of generate_unique_name                                      *)
(***************************************************************************)
\* C29: the generation of a unique name ends for every snapshot and every
\* original name met by the rename branch: the name reported in renamed is
\* original + " (N)" with 1 <= N <= (number of snapshot entries) + 1, its
\* lowercase key is not in the snapshot the generation read, and the
\* generation leaves the snapshot alone: after the iteration every entry
\* of the snapshot is as before, and the only key that can have come in is
\* that of the record created under the new name.
C29_UniqueNameGeneration ==
    [][(/\ ValidRecordNext
        /\ i' # i
        /\ conflict_resolution = "rename"
        /\ lower(batch[i].name.v) \in DOMAIN existing_prompts) =>
          /\ results'.renamed # <<>>
          /\ \E n \in 1..(Cardinality(DOMAIN existing_prompts) + 1) :
                LET new_name == Suffixed(batch[i].name.v, n)
                IN  /\ results'.renamed[Len(results'.renamed)].new_name = new_name
                    /\ lower(new_name) \notin DOMAIN existing_prompts
                    /\ DOMAIN existing_prompts' \subseteq
                          DOMAIN existing_prompts \cup {lower(new_name)}
          /\ \A key \in DOMAIN existing_prompts :
                /\ key \in DOMAIN existing_prompts'
                /\ existing_prompts'[key] = existing_prompts[key]]_vars

\* the records "a" and "A" imported under rename into a collection that
\* has "A" and "A (1)": the generation passes over the taken suffixes and
\* the records are stored as "a (2)" and "A (3)"
C29_Witness ==
    /\ Reported
    /\ conflict_resolution = "rename"
    /\ batch = <<RecLowerA, RecA>>
    /\ Len(db) = 4
    /\ db[3].name = <<"a", " ", "(", "2", ")">>
    /\ db[4].name = <<"A", " ", "(", "3", ")">>
    /\ response.results.renamed[2].new_name = db[4].name

(***************************************************************************)
(* Properties of _make_request for every max_retries                       *)
(***************************************************************************)
\* the operations that go through _make_request
NetworkOps ==
    {"get_available_models", "refresh_models_cache", "check_connection", "health_check",
     "refine_prompt", "test_prompt"}

\* C30: for every max_retries >= 0, 0 included, and every sequence of
\* outcomes of the endpoint, a network operation issues at most
\* max_retries requests, and both its request loop and the operation
\* itself end either with a result or with one of the errors of the
\* service (OllamaTimeoutError, OllamaConnectionError), never with another
\* kind of failure.
C30_EndsWithResponseOrEndpointError ==
    \A t \in active :
        (th[t].op \in NetworkOps /\ th[t].pc = "done") =>
            /\ th[t].call_count <= max_retries
            /\ th[t].result.kind = "raise" => IsOllamaError(th[t].result.exc)

====
